---- MODULE Spec2Model ----
(***************************************************************************)
(* Titan: the opportunity-scan-and-execution-gating pipeline.              *)
(*                                                                         *)
(*   core/chain_registry.py        ChainRegistry                           *)
(*   core/execution_modes.py       Paper / Live / Hybrid executors         *)
(*   execution/execution_client.py ExecutionManager.submit_trade           *)
(*   core/titan_commander_core.py  TitanCommander.optimize_loan_size       *)
(*   ml/brain.py                   ProfitEngine                            *)
(*                                                                         *)
(* Money in the executors is counted in cents (Live) and in 1e-5 USD       *)
(* (Paper, whose slippage factor 0.998 has three decimals).                *)
(***************************************************************************)
EXTENDS Integers, Sequences, FiniteSets, TLC

VARIABLES
    \* ---- ChainRegistry (core/chain_registry.py)
    CHAIN_STATES,          \* class dict chain id -> "ENABLED" | "CONFIGURED"
    env_rpc,               \* environment: chain id -> Optional URL (RPC_<NAME>)
    env_executor,          \* environment: chain id -> Optional address
    validated_rpcs,        \* dict chain id -> URL
    health_status,         \* dict chain id -> BOOLEAN
    registry_ret,          \* the last registry call and what it returned
    \* ---- LiveMainnetExecutor / PaperTradingSimulator (core/execution_modes.py)
    PRIVATE_KEY,           \* environment variable PRIVATE_KEY
    EXECUTOR_ADDRESS,      \* environment variable EXECUTOR_ADDRESS
    redis_enabled,         \* LiveMainnetExecutor.redis_enabled
    max_concurrent_txs,    \* LiveMainnetExecutor.max_concurrent_txs (MAX_CONCURRENT_TXS)
    pending_txs,           \* Redis set "pending_txs"
    published,             \* trade ids published on channel "trade_signals"
    live_total_trades,
    live_successful_trades,
    live_total_profit,
    live_trade_history,
    paper_total_trades,
    paper_successful_trades,
    paper_total_profit,
    paper_current_capital, \* relative to initial_capital
    paper_trade_history,   \* number of records appended
    last_result,           \* the last executor call and what it returned
    \* ---- TitanCommander (core/titan_commander_core.py), ProfitEngine (ml/brain.py)
    loan_call,             \* optimize_loan_size: arguments, vault reply, return
    profit_call,           \* calculate_enhanced_profit: arguments and return
    \* ---- threads inside LiveMainnetExecutor.execute_trade
    workers,               \* worker -> where it is in execute_trade, with its locals
    \* ---- ExecutionManager (execution/execution_client.py)
    max_retries,           \* ExecutionManager.max_retries
    stats,                 \* ExecutionManager.stats
    submit_call,           \* per caller: where its call is, attempts made, return
    \* ---- OmniBrain (ml/brain.py)
    brain_pc,              \* constructed, initialized (graph built), scanned
    inventory,             \* OmniBrain.inventory: chain id -> its symbols, in key order
    node_indices,          \* OmniBrain.node_indices: (chain id, symbol) -> node
    graph,                 \* OmniBrain.graph: node payloads and edges
    opportunities,         \* what _find_opportunities last returned
    \* ---- SystemReadinessValidator (core/system_readiness.py), ExecutionModeFactory
    environ,               \* os.environ: EXECUTION_MODE and the safety settings
    execution_mode,        \* SystemReadinessValidator.execution_mode
    validation_results,    \* SystemReadinessValidator.validation_results
    startup_ret,           \* the last startup call and what it returned
    validator_calls,       \* calls made on the validator so far
    \* ---- OmniBrain.scan_loop and its ThreadPoolExecutor (ml/brain.py)
    scan_pc,               \* where the control thread is in the loop body
    cycle,                 \* the iteration of 'while True' it is in, from 1
    chain_gas_map,         \* the local chain_gas_map of the iteration
    pool,                  \* the tasks submitted to self.executor: the live Futures
    f,                     \* the loop variable of line 349: the Future last yielded
    yielded                \* what as_completed(scan_futures) has yielded so far

registryVars == <<CHAIN_STATES, env_rpc, env_executor, validated_rpcs,
                  health_status, registry_ret>>
liveVars == <<pending_txs, published, live_total_trades,
              live_successful_trades, live_total_profit, live_trade_history>>
paperVars == <<paper_total_trades, paper_successful_trades, paper_total_profit,
               paper_current_capital, paper_trade_history>>
execEnvVars == <<PRIVATE_KEY, EXECUTOR_ADDRESS, redis_enabled, max_concurrent_txs>>
execVars == <<execEnvVars, liveVars, paperVars, last_result>>
brainVars == <<loan_call, profit_call>>
workerVars == <<workers>>
managerVars == <<max_retries, stats, submit_call>>
graphVars == <<brain_pc, inventory, node_indices, graph, opportunities>>
startupVars == <<environ, execution_mode, validation_results, startup_ret,
                 validator_calls>>
scanVars == <<scan_pc, cycle, chain_gas_map, pool, f, yielded>>

(***************************************************************************)
(* Python values                                                           *)
(***************************************************************************)
\* Optional[str]: None, or a string carried as a sequence of tokens.
None == <<"None", <<>>>>
Str(s) == <<"str", s>>
Truthy(v) == v[1] = "str" /\ v[2] # <<>>

EmptyDict == [k \in {} |-> TRUE]
DictSet(d, k, v) == [x \in (DOMAIN d) \cup {k} |-> IF x = k THEN v ELSE d[x]]

(***************************************************************************)
(* ChainRegistry                                                           *)
(***************************************************************************)
\* Chain ids the model calls the registry with: the three of the table and
\* one the table does not know (56).
Chains == {1, 137, 42161, 56}

\* CHAIN_STATES as written in the source, in dict order.
ChainOrder == <<137, 1, 42161>>
InitialChainStates ==
    [c \in {137, 1, 42161} |-> IF c = 137 THEN "ENABLED" ELSE "CONFIGURED"]

\* CHAIN_METADATA: the chains that have an rpc_env key.
MetadataChains == {1, 137, 42161}
chain_name(chain_id) ==
    CASE chain_id = 1 -> "ethereum"
      [] chain_id = 137 -> "polygon"
      [] chain_id = 42161 -> "arbitrum"
      [] OTHER -> "chain-other"

\* URL strings are sequences of tokens; the string is their concatenation.
\* No token holds part of "localhost" or "127.0.0.1", so a substring test
\* is a test on tokens, and a prefix test is a test on the first token.
UrlTokens == {"http://", "https://", "HTTP://", "ws://", "localhost",
              "LocalHost", "127.0.0.1", "rpc.example.org", "/v1"}
Lower(tok) ==
    CASE tok = "HTTP://" -> "http://"
      [] tok = "LocalHost" -> "localhost"
      [] OTHER -> tok
Contains(url, needle) == \E i \in 1..Len(url) : url[i] = needle
ContainsLower(url, needle) == \E i \in 1..Len(url) : Lower(url[i]) = needle
StartsWith(url, prefix) == Len(url) > 0 /\ url[1] = prefix

state_get(chain_id) ==
    IF chain_id \in DOMAIN CHAIN_STATES THEN CHAIN_STATES[chain_id] ELSE "None"

\* Faulty variant: a healthy RPC is taken as permission to execute.
is_execution_enabled_healthy(chain_id) ==
    \/ state_get(chain_id) = "ENABLED"
    \/ chain_id \in DOMAIN health_status /\ health_status[chain_id]

is_execution_enabled(chain_id) ==
    state_get(chain_id) = "ENABLED"

is_configured(chain_id) ==
    state_get(chain_id) \in {"ENABLED", "CONFIGURED"}

get_execution_state(chain_id) ==
    IF chain_id \in DOMAIN CHAIN_STATES THEN CHAIN_STATES[chain_id]
    ELSE "DISABLED"

get_configured_chains ==
    SelectSeq(ChainOrder, LAMBDA c : is_configured(c))

get_rpc_url(chain_id) ==
    IF chain_id \notin MetadataChains THEN None
    ELSE LET rpc_url == env_rpc[chain_id] IN
         IF Truthy(rpc_url)
         THEN IF \/ ContainsLower(rpc_url[2], "localhost")
                 \/ Contains(rpc_url[2], "127.0.0.1")
              THEN None
              ELSE IF ~ ( \/ StartsWith(rpc_url[2], "http://")
                          \/ StartsWith(rpc_url[2], "https://") )
                   THEN None
                   ELSE rpc_url
         ELSE rpc_url

get_executor_address(chain_id) ==
    IF chain_id \notin {1, 137, 42161} THEN None ELSE env_executor[chain_id]

\* What the liveness probe of validate_rpc_health can meet.
Probes == {"connected", "unreachable", "connect_raises", "block_number_raises"}
\* The two outcomes validate_all_configured_chains is driven with per chain.
SweepProbes == {"connected", "block_number_raises"}

\* Faulty variant: the URL is cached as soon as the node answers, before the
\* block height is fetched.
validate_rpc_health_early_write(reg, chain_id, probe) ==
    LET rpc_url == get_rpc_url(chain_id) IN
    IF ~Truthy(rpc_url)
    THEN [v |-> reg.v, h |-> DictSet(reg.h, chain_id, FALSE), ret |-> FALSE]
    ELSE IF probe = "connected"
         THEN [v |-> DictSet(reg.v, chain_id, rpc_url),
               h |-> DictSet(reg.h, chain_id, TRUE), ret |-> TRUE]
         ELSE IF probe = "block_number_raises"
         THEN [v |-> DictSet(reg.v, chain_id, rpc_url),
               h |-> DictSet(reg.h, chain_id, FALSE), ret |-> FALSE]
         ELSE [v |-> reg.v, h |-> DictSet(reg.h, chain_id, FALSE), ret |-> FALSE]

\* validate_rpc_health on the pair (validated_rpcs, health_status).
validate_rpc_health(reg, chain_id, probe) ==
    LET rpc_url == get_rpc_url(chain_id) IN
    IF ~Truthy(rpc_url)
    THEN [v |-> reg.v, h |-> DictSet(reg.h, chain_id, FALSE), ret |-> FALSE]
    ELSE IF probe = "connected"
         THEN [v |-> DictSet(reg.v, chain_id, rpc_url),
               h |-> DictSet(reg.h, chain_id, TRUE), ret |-> TRUE]
         ELSE [v |-> reg.v, h |-> DictSet(reg.h, chain_id, FALSE), ret |-> FALSE]

RECURSIVE validate_loop(_, _, _, _)
validate_loop(reg, chains, probes, results) ==
    IF chains = <<>> THEN [v |-> reg.v, h |-> reg.h, ret |-> results]
    ELSE LET r == validate_rpc_health(reg, Head(chains), probes[Head(chains)]) IN
         validate_loop(r, Tail(chains), probes,
                       DictSet(results, Head(chains), r.ret))

\* Faulty variant: a chain found healthy is promoted in CHAIN_STATES.
ValidateRpcHealth_promoting(chain_id, probe) ==
    LET r == validate_rpc_health([v |-> validated_rpcs, h |-> health_status],
                                 chain_id, probe) IN
    /\ validated_rpcs' = r.v
    /\ health_status' = r.h
    /\ CHAIN_STATES' = IF r.ret THEN DictSet(CHAIN_STATES, chain_id, "ENABLED")
                       ELSE CHAIN_STATES
    /\ registry_ret' = [op |-> "validate_rpc_health", chain |-> chain_id,
                        ret |-> r.ret]
    /\ UNCHANGED <<env_rpc, env_executor>>

ValidateRpcHealth(chain_id, probe) ==
    LET r == validate_rpc_health([v |-> validated_rpcs, h |-> health_status],
                                 chain_id, probe) IN
    /\ validated_rpcs' = r.v
    /\ health_status' = r.h
    /\ registry_ret' = [op |-> "validate_rpc_health", chain |-> chain_id,
                        ret |-> r.ret]
    /\ UNCHANGED <<CHAIN_STATES, env_rpc, env_executor>>

ValidateAllConfiguredChains(probes) ==
    LET r == validate_loop([v |-> validated_rpcs, h |-> health_status],
                           get_configured_chains, probes, EmptyDict) IN
    /\ validated_rpcs' = r.v
    /\ health_status' = r.h
    /\ registry_ret' = [op |-> "validate_all_configured_chains", chain |-> 0,
                        ret |-> r.ret]
    /\ UNCHANGED <<CHAIN_STATES, env_rpc, env_executor>>

CallIsExecutionEnabled(chain_id) ==
    /\ registry_ret' = [op |-> "is_execution_enabled", chain |-> chain_id,
                        ret |-> is_execution_enabled(chain_id)]
    /\ UNCHANGED <<CHAIN_STATES, env_rpc, env_executor, validated_rpcs,
                   health_status>>

CallGetExecutionState(chain_id) ==
    /\ registry_ret' = [op |-> "get_execution_state", chain |-> chain_id,
                        ret |-> get_execution_state(chain_id)]
    /\ UNCHANGED <<CHAIN_STATES, env_rpc, env_executor, validated_rpcs,
                   health_status>>

CallGetRpcUrl(chain_id) ==
    /\ registry_ret' = [op |-> "get_rpc_url", chain |-> chain_id,
                        ret |-> get_rpc_url(chain_id)]
    /\ UNCHANGED <<CHAIN_STATES, env_rpc, env_executor, validated_rpcs,
                   health_status>>

CallGetExecutorAddress(chain_id) ==
    /\ registry_ret' = [op |-> "get_executor_address", chain |-> chain_id,
                        ret |-> get_executor_address(chain_id)]
    /\ UNCHANGED <<CHAIN_STATES, env_rpc, env_executor, validated_rpcs,
                   health_status>>

NoCall == [op |-> "none", chain |-> 0, ret |-> FALSE]

\* Environments of the registry specification: per chain the RPC variable
\* is unset, a public endpoint, or a loopback endpoint.
GoodUrl == Str(<<"https://", "rpc.example.org">>)
LoopbackUrl == Str(<<"http://", "localhost">>)
RegistryEnvs ==
    { [c \in MetadataChains |-> None],
      [c \in MetadataChains |-> GoodUrl],
      [c \in MetadataChains |-> IF c = 137 THEN LoopbackUrl ELSE GoodUrl],
      [c \in MetadataChains |-> IF c = 137 THEN GoodUrl ELSE None] }
ExecutorEnvs ==
    { [c \in MetadataChains |-> None],
      [c \in MetadataChains |-> IF c = 137 THEN Str(<<"0xExecutor">>) ELSE None] }

(***************************************************************************)
(* Trade signals (dicts) and what Redis does during one call               *)
(***************************************************************************)
required_fields == <<"chainId", "token", "amount", "protocols", "routers", "path">>
RequiredKeys == {required_fields[i] : i \in 1..Len(required_fields)}
OptionalKeys == {"expected_profit", "estimated_slippage_bps",
                 "confidence_score", "gas_cost"}

\* A signal: the keys it holds, and the values of the keys the executors
\* read (0 where the key is absent). expected_profit and gas_cost in cents,
\* confidence_score in hundredths.
MkSignal(keys, chain, profit, slip, conf, gas) ==
    [keys |-> keys, chainId |-> chain, expected_profit |-> profit,
     estimated_slippage_bps |-> slip, confidence_score |-> conf,
     gas_cost |-> gas]

\* trade_signal.get(key, default)
Get(sig, key, default) ==
    IF key \in sig.keys
    THEN CASE key = "expected_profit" -> sig.expected_profit
           [] key = "estimated_slippage_bps" -> sig.estimated_slippage_bps
           [] key = "confidence_score" -> sig.confidence_score
           [] key = "gas_cost" -> sig.gas_cost
    ELSE default

\* 137 is ENABLED, 1 is CONFIGURED, 56 is not in the registry.
SignalChains == {137, 1, 56}

OptKeys(p, s, c, g) ==
    (IF p THEN {"expected_profit"} ELSE {})
    \cup (IF s THEN {"estimated_slippage_bps"} ELSE {})
    \cup (IF c THEN {"confidence_score"} ELSE {})
    \cup (IF g THEN {"gas_cost"} ELSE {})

\* Complete signals at the hybrid threshold: every chain, a profit one cent
\* under the minimum and at it, a slippage at the maximum and one over it.
FullSignals ==
    { MkSignal(RequiredKeys \cup OptKeys(TRUE, TRUE, TRUE, FALSE),
               c, p, s, 85, 0) :
        c \in SignalChains, p \in {499, 500}, s \in {50, 51} }
\* Without expected_profit, and without estimated_slippage_bps.
DefaultedSignals ==
    { MkSignal(RequiredKeys \cup OptKeys(FALSE, TRUE, TRUE, FALSE),
               137, 0, 20, 90, 0),
      MkSignal(RequiredKeys \cup OptKeys(TRUE, FALSE, TRUE, FALSE),
               137, 1500, 0, 90, 0) }
\* Below the threshold, and without a confidence score.
LowConfidenceSignals ==
    { MkSignal(RequiredKeys \cup OptKeys(TRUE, TRUE, cf[1], FALSE),
               1, 1500, 20, cf[2], 0) :
        cf \in {<<FALSE, 0>>, <<TRUE, 84>>} }
\* One required field missing.
IncompleteSignals ==
    { MkSignal((RequiredKeys \ {field}) \cup OptKeys(TRUE, TRUE, TRUE, FALSE),
               137, 1500, 20, 90, 0) : field \in RequiredKeys }
\* With a gas cost of its own.
GasSignals ==
    { MkSignal(RequiredKeys \cup OptKeys(TRUE, TRUE, TRUE, TRUE),
               137, 1550, 20, 70, 250) }
Signals == FullSignals \cup DefaultedSignals \cup LowConfidenceSignals
           \cup IncompleteSignals \cup GasSignals

\* What the Redis server does during one call: whether SCARD answers, and
\* how far SADD / PUBLISH get.
RedisOutcomes == [scard : BOOLEAN, write : {"ok", "sadd_raises", "publish_raises"}]

(***************************************************************************)
(* LiveMainnetExecutor                                                     *)
(***************************************************************************)
\* os.getenv values: unset, the placeholder of .env.example, a real value.
EnvValues == {"None", "PLACEHOLDER", "configured"}
EnvSet(v) == v # "None" /\ v # "PLACEHOLDER"

Reason(msg, a, b, missing) == [msg |-> msg, a |-> a, b |-> b, missing |-> missing]
Passed == Reason("All checks passed", 0, 0, <<>>)
NoReason == Reason("", 0, 0, <<>>)

\* pre_execution_checks with the profit test strict (equality rejected).
pre_execution_checks_strict(trade_signal, redis) ==
    LET expected_profit == Get(trade_signal, "expected_profit", 0)
        slippage_bps == Get(trade_signal, "estimated_slippage_bps", 0)
        missing == SelectSeq(required_fields,
                             LAMBDA field : field \notin trade_signal.keys)
    IN
    IF expected_profit <= 500
    THEN [ok |-> FALSE, reason |-> Reason("Profit below minimum",
                                          expected_profit, 500, <<>>)]
    ELSE IF slippage_bps > 50
    THEN [ok |-> FALSE, reason |-> Reason("Slippage exceeds max",
                                          slippage_bps, 50, <<>>)]
    ELSE IF /\ redis_enabled
            /\ redis.scard
            /\ Cardinality(pending_txs) >= max_concurrent_txs
    THEN [ok |-> FALSE, reason |-> Reason("Max concurrent txs reached",
                                          max_concurrent_txs, 0, <<>>)]
    ELSE IF missing # <<>>
    THEN [ok |-> FALSE, reason |-> Reason("Missing required fields", 0, 0,
                                          missing)]
    ELSE IF ~EnvSet(PRIVATE_KEY)
    THEN [ok |-> FALSE, reason |-> Reason("PRIVATE_KEY not configured in .env",
                                          0, 0, <<>>)]
    ELSE IF ~EnvSet(EXECUTOR_ADDRESS)
    THEN [ok |-> FALSE, reason |-> Reason("EXECUTOR_ADDRESS not configured",
                                          0, 0, <<>>)]
    ELSE [ok |-> TRUE, reason |-> Passed]

\* MIN_PROFIT_USD (cents) and MAX_SLIPPAGE_BPS at their defaults.
min_profit_usd == 500
max_slippage_bps == 50

pre_execution_checks(trade_signal, redis) ==
    LET expected_profit == Get(trade_signal, "expected_profit", 0)
        slippage_bps == Get(trade_signal, "estimated_slippage_bps", 0)
        missing == SelectSeq(required_fields,
                             LAMBDA field : field \notin trade_signal.keys)
    IN
    \* Check 1: minimum profit threshold
    IF expected_profit < min_profit_usd
    THEN [ok |-> FALSE, reason |-> Reason("Profit below minimum",
                                          expected_profit, min_profit_usd, <<>>)]
    \* Check 2: slippage tolerance
    ELSE IF slippage_bps > max_slippage_bps
    THEN [ok |-> FALSE, reason |-> Reason("Slippage exceeds max",
                                          slippage_bps, max_slippage_bps, <<>>)]
    \* Check 3: concurrent transaction limit; skipped when SCARD raises
    ELSE IF /\ redis_enabled
            /\ redis.scard
            /\ Cardinality(pending_txs) >= max_concurrent_txs
    THEN [ok |-> FALSE, reason |-> Reason("Max concurrent txs reached",
                                          max_concurrent_txs, 0, <<>>)]
    \* Check 4: required fields
    ELSE IF missing # <<>>
    THEN [ok |-> FALSE, reason |-> Reason("Missing required fields", 0, 0,
                                          missing)]
    \* Check 5: private key
    ELSE IF ~EnvSet(PRIVATE_KEY)
    THEN [ok |-> FALSE, reason |-> Reason("PRIVATE_KEY not configured in .env",
                                          0, 0, <<>>)]
    \* Check 6: executor contract
    ELSE IF ~EnvSet(EXECUTOR_ADDRESS)
    THEN [ok |-> FALSE, reason |-> Reason("EXECUTOR_ADDRESS not configured",
                                          0, 0, <<>>)]
    ELSE [ok |-> TRUE, reason |-> Passed]

\* What a call returned: the executor called, the trade id, the status, the
\* error, is_paper and (Paper) the net profit in 1e-5 USD; with it the local
\* is_valid of execute_trade ("n/a" where pre_execution_checks did not run).
Result(op, id, status, error, paper, net, valid) ==
    [op |-> op, trade_id |-> id, status |-> status, error |-> error,
     is_paper |-> paper, net_profit |-> net, is_valid |-> valid]
NoTrade == <<"", 0, 0>>
NoResult == Result("none", NoTrade, "", NoReason, FALSE, 0, "n/a")

CallPreExecutionChecks(trade_signal, redis) ==
    LET chk == pre_execution_checks(trade_signal, redis) IN
    /\ last_result' = Result("pre_execution_checks", NoTrade, "", chk.reason,
                             FALSE, 0, IF chk.ok THEN "True" ELSE "False")
    /\ UNCHANGED <<execEnvVars, liveVars, paperVars>>

\* execute_trade marking the trade pending before it validates it.
LiveExecuteTrade_pending_first(trade_signal, redis) ==
    LET n == live_total_trades + 1
        trade_id == <<"LIVE", trade_signal.chainId, n>>
        chk == pre_execution_checks(trade_signal, redis)
    IN
    /\ live_total_trades' = n
    /\ "chainId" \in trade_signal.keys
    /\ redis_enabled
    /\ pending_txs' = pending_txs \cup {trade_id}
    /\ IF chk.ok
       THEN /\ published' = published \cup {trade_id}
            /\ last_result' = Result("live", trade_id, "SUBMITTED", NoReason,
                                     FALSE, 0, "True")
       ELSE /\ published' = published
            /\ last_result' = Result("live", trade_id, "FAILED", chk.reason,
                                     FALSE, 0, "False")
    /\ UNCHANGED <<execEnvVars, paperVars, live_successful_trades,
                   live_total_profit, live_trade_history>>

\* execute_trade degrading to a simulated result when Redis is not connected.
LiveExecuteTrade_paper_fallback(trade_signal, redis) ==
    LET n == live_total_trades + 1
        trade_id == <<"LIVE", trade_signal.chainId, n>>
        chk == pre_execution_checks(trade_signal, redis)
        failed(reason) == Result("live", trade_id, "FAILED", reason, FALSE, 0,
                                 IF chk.ok THEN "True" ELSE "False")
    IN
    /\ live_total_trades' = n
    /\ IF "chainId" \notin trade_signal.keys
       THEN \* trade_signal['chainId'] raises KeyError while the id is built
            /\ last_result' = Result("live", NoTrade, "RAISED",
                                     Reason("KeyError", 0, 0, <<"chainId">>),
                                     FALSE, 0, "n/a")
            /\ UNCHANGED <<pending_txs, published>>
       ELSE IF ~chk.ok
       THEN /\ last_result' = failed(chk.reason)
            /\ UNCHANGED <<pending_txs, published>>
       ELSE IF ~redis_enabled
       THEN /\ last_result' = Result("live", trade_id, "SIMULATED", NoReason,
                                     TRUE, 0, "True")
            /\ UNCHANGED <<pending_txs, published>>
       ELSE IF redis.write = "sadd_raises"
       THEN /\ last_result' = failed(Reason("Redis publish failed", 0, 0, <<>>))
            /\ UNCHANGED <<pending_txs, published>>
       ELSE IF redis.write = "publish_raises"
       THEN /\ pending_txs' = pending_txs \cup {trade_id}
            /\ last_result' = failed(Reason("Redis publish failed", 0, 0, <<>>))
            /\ UNCHANGED published
       ELSE /\ pending_txs' = pending_txs \cup {trade_id}
            /\ published' = published \cup {trade_id}
            /\ last_result' = Result("live", trade_id, "SUBMITTED", NoReason,
                                     FALSE, 0, "True")
    /\ UNCHANGED <<execEnvVars, paperVars, live_successful_trades,
                   live_total_profit, live_trade_history>>

LiveExecuteTrade(trade_signal, redis) ==
    LET n == live_total_trades + 1
        trade_id == <<"LIVE", trade_signal.chainId, n>>
        chk == pre_execution_checks(trade_signal, redis)
        failed(reason) == Result("live", trade_id, "FAILED", reason, FALSE, 0,
                                 IF chk.ok THEN "True" ELSE "False")
    IN
    /\ live_total_trades' = n
    /\ IF "chainId" \notin trade_signal.keys
       THEN \* trade_signal['chainId'] raises KeyError while the id is built
            /\ last_result' = Result("live", NoTrade, "RAISED",
                                     Reason("KeyError", 0, 0, <<"chainId">>),
                                     FALSE, 0, "n/a")
            /\ UNCHANGED <<pending_txs, published>>
       ELSE IF ~chk.ok
       THEN /\ last_result' = failed(chk.reason)
            /\ UNCHANGED <<pending_txs, published>>
       ELSE IF ~redis_enabled
       THEN /\ last_result' = failed(Reason("Redis not available", 0, 0, <<>>))
            /\ UNCHANGED <<pending_txs, published>>
       ELSE IF redis.write = "sadd_raises"
       THEN /\ last_result' = failed(Reason("Redis publish failed", 0, 0, <<>>))
            /\ UNCHANGED <<pending_txs, published>>
       ELSE IF redis.write = "publish_raises"
       THEN /\ pending_txs' = pending_txs \cup {trade_id}
            /\ last_result' = failed(Reason("Redis publish failed", 0, 0, <<>>))
            /\ UNCHANGED published
       ELSE /\ pending_txs' = pending_txs \cup {trade_id}
            /\ published' = published \cup {trade_id}
            /\ last_result' = Result("live", trade_id, "SUBMITTED", NoReason,
                                     FALSE, 0, "True")
    /\ UNCHANGED <<execEnvVars, paperVars, live_successful_trades,
                   live_total_profit, live_trade_history>>

\* Results the execution bot reports: status and actual profit in cents.
ExecutionResults == { [status |-> "SUCCESS", actual_profit |-> 700],
                      [status |-> "FAILED", actual_profit |-> 0] }

\* record_execution_result without the SREM.
RecordExecutionResult_no_srem(trade_id, result, srem_ok) ==
    /\ pending_txs' = pending_txs
    /\ IF result.status = "SUCCESS"
       THEN /\ live_successful_trades' = live_successful_trades + 1
            /\ live_total_profit' = live_total_profit + result.actual_profit
       ELSE UNCHANGED <<live_successful_trades, live_total_profit>>
    /\ live_trade_history' = Append(live_trade_history, result)
    /\ last_result' = Result("record_execution_result", trade_id, "", NoReason,
                             FALSE, 0, "n/a")
    /\ UNCHANGED <<execEnvVars, paperVars, published, live_total_trades>>

RecordExecutionResult(trade_id, result, srem_ok) ==
    /\ pending_txs' = IF redis_enabled /\ srem_ok
                      THEN pending_txs \ {trade_id}
                      ELSE pending_txs
    /\ IF result.status = "SUCCESS"
       THEN /\ live_successful_trades' = live_successful_trades + 1
            /\ live_total_profit' = live_total_profit + result.actual_profit
       ELSE UNCHANGED <<live_successful_trades, live_total_profit>>
    /\ live_trade_history' = Append(live_trade_history, result)
    /\ last_result' = Result("record_execution_result", trade_id, "", NoReason,
                             FALSE, 0, "n/a")
    /\ UNCHANGED <<execEnvVars, paperVars, published, live_total_trades>>

(***************************************************************************)
(* execute_trade run by several threads on one LiveMainnetExecutor: each   *)
(* step is what one thread does up to its next Redis command.              *)
(***************************************************************************)
NoSignal == MkSignal({}, 0, 0, 0, 0, 0)
IdleWorker == [pc |-> "idle", trade_signal |-> NoSignal, trade_id |-> NoTrade]

\* self.total_trades += 1 and the trade id built from it.
WorkerEnter(w, trade_signal) ==
    LET n == live_total_trades + 1
        trade_id == <<"LIVE", trade_signal.chainId, n>>
    IN
    /\ workers[w].pc = "idle"
    /\ live_total_trades' = n
    /\ IF "chainId" \notin trade_signal.keys
       THEN /\ last_result' = Result("live", NoTrade, "RAISED",
                                     Reason("KeyError", 0, 0, <<"chainId">>),
                                     FALSE, 0, "n/a")
            /\ UNCHANGED workers
       ELSE /\ workers' = [workers EXCEPT ![w] =
                              [pc |-> "pre_execution_checks",
                               trade_signal |-> trade_signal,
                               trade_id |-> trade_id]]
            /\ UNCHANGED last_result
    /\ UNCHANGED <<execEnvVars, paperVars, pending_txs, published,
                   live_successful_trades, live_total_profit,
                   live_trade_history>>

\* pre_execution_checks, whose one Redis command is SCARD, and the test of
\* redis_enabled that follows it.
WorkerPreExecutionChecks(w, redis) ==
    LET me == workers[w]
        chk == pre_execution_checks(me.trade_signal, redis)
        failed(reason) == Result("live", me.trade_id, "FAILED", reason, FALSE,
                                 0, IF chk.ok THEN "True" ELSE "False")
    IN
    /\ me.pc = "pre_execution_checks"
    /\ IF ~chk.ok
       THEN /\ last_result' = failed(chk.reason)
            /\ workers' = [workers EXCEPT ![w] = IdleWorker]
       ELSE IF ~redis_enabled
       THEN /\ last_result' = failed(Reason("Redis not available", 0, 0, <<>>))
            /\ workers' = [workers EXCEPT ![w] = IdleWorker]
       ELSE /\ workers' = [workers EXCEPT ![w].pc = "sadd"]
            /\ UNCHANGED last_result
    /\ UNCHANGED <<execEnvVars, liveVars, paperVars>>

\* redis_client.sadd("pending_txs", trade_id)
WorkerSadd(w, redis) ==
    LET me == workers[w] IN
    /\ me.pc = "sadd"
    /\ IF redis.write = "sadd_raises"
       THEN /\ last_result' = Result("live", me.trade_id, "FAILED",
                                     Reason("Redis publish failed", 0, 0, <<>>),
                                     FALSE, 0, "True")
            /\ workers' = [workers EXCEPT ![w] = IdleWorker]
            /\ UNCHANGED pending_txs
       ELSE /\ pending_txs' = pending_txs \cup {me.trade_id}
            /\ workers' = [workers EXCEPT ![w].pc = "publish"]
            /\ UNCHANGED last_result
    /\ UNCHANGED <<execEnvVars, paperVars, published, live_total_trades,
                   live_successful_trades, live_total_profit,
                   live_trade_history>>

\* redis_client.publish('trade_signals', ...) and the return.
WorkerPublish(w, redis) ==
    LET me == workers[w] IN
    /\ me.pc = "publish"
    /\ IF redis.write = "publish_raises"
       THEN /\ last_result' = Result("live", me.trade_id, "FAILED",
                                     Reason("Redis publish failed", 0, 0, <<>>),
                                     FALSE, 0, "True")
            /\ UNCHANGED published
       ELSE /\ published' = published \cup {me.trade_id}
            /\ last_result' = Result("live", me.trade_id, "SUBMITTED", NoReason,
                                     FALSE, 0, "True")
    /\ workers' = [workers EXCEPT ![w] = IdleWorker]
    /\ UNCHANGED <<execEnvVars, paperVars, pending_txs, live_total_trades,
                   live_successful_trades, live_total_profit,
                   live_trade_history>>

(***************************************************************************)
(* PaperTradingSimulator                                                   *)
(***************************************************************************)
\* Decimal("0.998") in thousandths, and the default gas cost 5.0 in cents.
slippage_factor == 998
default_gas_cost == 500

\* execute_trade reporting a loss-making simulation as submitted.
PaperExecuteTrade_submits_losses(trade_signal) ==
    LET n == paper_total_trades + 1
        trade_id == <<"PAPER", trade_signal.chainId, n>>
        net_profit == Get(trade_signal, "expected_profit", 0) * slippage_factor
                      - Get(trade_signal, "gas_cost", default_gas_cost) * 1000
    IN
    /\ {"chainId", "token", "amount"} \subseteq trade_signal.keys
    /\ paper_total_trades' = n
    /\ paper_current_capital' = paper_current_capital + net_profit
    /\ paper_total_profit' = paper_total_profit + net_profit
    /\ paper_successful_trades' =
           paper_successful_trades + (IF net_profit > 0 THEN 1 ELSE 0)
    /\ paper_trade_history' = paper_trade_history + 1
    /\ last_result' = Result("paper", trade_id,
                             IF net_profit > 0 THEN "SIMULATED" ELSE "SUBMITTED",
                             NoReason, TRUE, net_profit, "n/a")
    /\ UNCHANGED <<execEnvVars, liveVars>>

PaperExecuteTrade(trade_signal) ==
    LET n == paper_total_trades + 1
        trade_id == <<"PAPER", trade_signal.chainId, n>>
        expected_profit == Get(trade_signal, "expected_profit", 0)
        actual_profit == expected_profit * slippage_factor
        gas_cost == Get(trade_signal, "gas_cost", default_gas_cost) * 1000
        net_profit == actual_profit - gas_cost
        unreadable == SelectSeq(<<"chainId", "token", "amount">>,
                                LAMBDA field : field \notin trade_signal.keys)
    IN
    /\ paper_total_trades' = n
    /\ IF unreadable # <<>>
       THEN \* trade_signal[...] raises KeyError before anything is simulated
            /\ last_result' = Result("paper", NoTrade, "RAISED",
                                     Reason("KeyError", 0, 0,
                                            <<Head(unreadable)>>), TRUE, 0,
                                     "n/a")
            /\ UNCHANGED <<paper_current_capital, paper_total_profit,
                           paper_successful_trades, paper_trade_history>>
       ELSE /\ paper_current_capital' = paper_current_capital + net_profit
            /\ paper_total_profit' = paper_total_profit + net_profit
            /\ paper_successful_trades' =
                   paper_successful_trades + (IF net_profit > 0 THEN 1 ELSE 0)
            /\ paper_trade_history' = paper_trade_history + 1
            /\ last_result' = Result("paper", trade_id, "SIMULATED", NoReason,
                                     TRUE, net_profit, "n/a")
    /\ UNCHANGED <<execEnvVars, liveVars>>

(***************************************************************************)
(* HybridExecutionManager                                                  *)
(***************************************************************************)
\* confidence_threshold, in hundredths
confidence_threshold == 85

\* Routing with the comparison strict: a tie goes to Paper.
HybridExecuteTrade_strict(trade_signal, redis) ==
    LET confidence == Get(trade_signal, "confidence_score", 0) IN
    IF confidence > confidence_threshold
    THEN LiveExecuteTrade(trade_signal, redis)
    ELSE PaperExecuteTrade(trade_signal)

HybridExecuteTrade(trade_signal, redis) ==
    LET confidence == Get(trade_signal, "confidence_score", 0) IN
    IF confidence >= confidence_threshold
    THEN LiveExecuteTrade(trade_signal, redis)
    ELSE PaperExecuteTrade(trade_signal)

(***************************************************************************)
(* Startup: SystemReadinessValidator (core/system_readiness.py) and        *)
(* ExecutionModeFactory (core/execution_modes.py)                          *)
(*                                                                         *)
(* An environment variable is the string it holds, "None" when unset.      *)
(***************************************************************************)
\* Values of EXECUTION_MODE and of the mode argument of the factory.
ModeStrings == {"paper", "live", "hybrid", "PAPER", "LIVE", "Hybrid",
                "mainnet", ""}
\* str.upper() and str.lower() on them.
Upper(s) ==
    CASE s \in {"paper", "PAPER"} -> "PAPER"
      [] s \in {"live", "LIVE"} -> "LIVE"
      [] s \in {"hybrid", "Hybrid"} -> "HYBRID"
      [] s = "mainnet" -> "MAINNET"
      [] OTHER -> s
LowerMode(s) ==
    CASE s \in {"paper", "PAPER"} -> "paper"
      [] s \in {"live", "LIVE"} -> "live"
      [] s \in {"hybrid", "Hybrid"} -> "hybrid"
      [] OTHER -> s

\* os.getenv(name, default)
Getenv(name, default) ==
    IF environ[name] = "None" THEN default ELSE environ[name]

\* float(s) and int(s) on the values the safety settings are given here:
\* whether the conversion succeeds, and the number (an integer in every
\* case that converts).
ParseFloat(s) ==
    CASE s = "500" -> [ok |-> TRUE, value |-> 500]
      [] s = "5.0" -> [ok |-> TRUE, value |-> 5]
      [] s = "50" -> [ok |-> TRUE, value |-> 50]
      [] s = "0" -> [ok |-> TRUE, value |-> 0]
      [] s = "-1" -> [ok |-> TRUE, value |-> -1]
      [] s = "10000" -> [ok |-> TRUE, value |-> 10000]
      [] s = "10001" -> [ok |-> TRUE, value |-> 10001]
      [] OTHER -> [ok |-> FALSE, value |-> 0]
ParseInt(s) ==
    IF s = "5.0" THEN [ok |-> FALSE, value |-> 0] ELSE ParseFloat(s)

\* The settings validate_safety_params reads.
SafetyEnvs ==
    { [MAX_BASE_FEE_GWEI |-> g, MIN_PROFIT_USD |-> p, MAX_SLIPPAGE_BPS |-> s] :
          g \in {"None"}, p \in {"None"}, s \in {"None", "10000", "10001", "5.0"} }
    \cup { [MAX_BASE_FEE_GWEI |-> g, MIN_PROFIT_USD |-> p, MAX_SLIPPAGE_BPS |-> "None"] :
          g \in {"0", "abc"}, p \in {"0", "-1"} }

\* PRIVATE_KEY as validate_wallet sees it: besides the values of EnvValues
\* ("configured" is 0x and 64 hex digits), a key of the wrong length and a
\* key of the right length that is not hexadecimal.
WalletKeys == EnvValues \cup {"wrong_length", "not_hex"}

PyBool(b) == IF b THEN "True" ELSE "False"

NoValidationResults ==
    [chain_rpcs |-> EmptyDict, execution_mode |-> "None", wallet |-> "None",
     executor_contracts |-> EmptyDict, redis |-> "None",
     safety_params |-> EmptyDict, overall |-> FALSE]
NoStartupCall == [op |-> "none", mode |-> "None", ret |-> "None"]

validate_execution_mode == execution_mode \in {"PAPER", "LIVE"}

validate_wallet ==
    IF execution_mode = "PAPER" THEN TRUE
    ELSE IF PRIVATE_KEY = "None" THEN FALSE
    ELSE IF PRIVATE_KEY \in {"PLACEHOLDER", "wrong_length"} THEN FALSE
    ELSE IF PRIVATE_KEY = "not_hex" THEN FALSE
    ELSE TRUE

validate_executor_contracts ==
    IF execution_mode = "LIVE"
    THEN LET polygon_executor == env_executor[137] IN
         IF ~Truthy(polygon_executor) THEN FALSE
         ELSE IF polygon_executor = Str(<<"0xYOUR_DEPLOYED_CONTRACT_ADDRESS_HERE">>)
              THEN FALSE
              ELSE TRUE
    ELSE TRUE

\* validate_safety_params: its return and what it leaves in
\* validation_results['safety_params'].
validate_safety_params ==
    LET max_base_fee == ParseFloat(Getenv("MAX_BASE_FEE_GWEI", "500"))
        min_profit == ParseFloat(Getenv("MIN_PROFIT_USD", "5.0"))
        max_slippage == ParseInt(Getenv("MAX_SLIPPAGE_BPS", "50"))
        rejected == [ret |-> FALSE, params |-> validation_results.safety_params]
    IN IF ~max_base_fee.ok \/ ~min_profit.ok \/ ~max_slippage.ok
       THEN rejected
       ELSE IF min_profit.value < 0 THEN rejected
       ELSE IF max_slippage.value < 0 \/ max_slippage.value > 10000
            THEN rejected
            ELSE [ret |-> TRUE,
                  params |-> [max_base_fee_gwei |-> max_base_fee.value,
                              min_profit_usd |-> min_profit.value,
                              max_slippage_bps |-> max_slippage.value]]

\* Faulty variant: the mode given by the caller is lower-cased like the one
\* read from the environment.
create_lowercased(mode) ==
    LET m == LowerMode(IF mode = "None" THEN Getenv("EXECUTION_MODE", "paper")
                       ELSE mode) IN
    CASE m = "paper" -> "PaperTradingSimulator"
      [] m = "live" -> "LiveMainnetExecutor"
      [] m = "hybrid" -> "HybridExecutionManager"
      [] OTHER -> "PaperTradingSimulator"

\* ExecutionModeFactory.create(mode): the class of the executor it returns
\* (mode "None" is the argument left out).
create(mode) ==
    LET m == IF mode = "None"
             THEN LowerMode(Getenv("EXECUTION_MODE", "paper"))
             ELSE mode IN
    CASE m = "paper" -> "PaperTradingSimulator"
      [] m = "live" -> "LiveMainnetExecutor"
      [] m = "hybrid" -> "HybridExecutionManager"
      [] OTHER -> "PaperTradingSimulator"

Create(mode) ==
    /\ startup_ret' = [op |-> "create", mode |-> mode, ret |-> create(mode)]
    /\ UNCHANGED <<environ, execution_mode, validation_results, validator_calls>>

\* execute_trade on the executor the factory returned.
ExecutorExecuteTrade(trade_signal, redis) ==
    CASE startup_ret.ret = "PaperTradingSimulator" ->
             PaperExecuteTrade(trade_signal)
      [] startup_ret.ret = "LiveMainnetExecutor" ->
             LiveExecuteTrade(trade_signal, redis)
      [] startup_ret.ret = "HybridExecutionManager" ->
             HybridExecuteTrade(trade_signal, redis)

\* Faulty variant of validate_chain_rpcs: every configured chain must be
\* healthy.
validate_chain_rpcs_all_healthy(results) ==
    \A c \in DOMAIN results : results[c]

\* validate_chain_rpcs on the dict validate_all_configured_chains returned:
\* results.get(137, False).
validate_chain_rpcs(results) ==
    IF 137 \in DOMAIN results THEN results[137] ELSE FALSE

\* validate_execution_mode called on its own: it records its answer in
\* validation_results['execution_mode'] and returns it.
ValidateExecutionMode ==
    /\ validation_results' =
           [validation_results EXCEPT
                !.execution_mode = PyBool(validate_execution_mode)]
    /\ startup_ret' = [op |-> "validate_execution_mode", mode |-> execution_mode,
                       ret |-> PyBool(validate_execution_mode)]
    /\ UNCHANGED <<registryVars, environ, execution_mode>>

\* validate_wallet called on its own.
ValidateWallet ==
    /\ validation_results' =
           [validation_results EXCEPT !.wallet = PyBool(validate_wallet)]
    /\ startup_ret' = [op |-> "validate_wallet", mode |-> execution_mode,
                       ret |-> PyBool(validate_wallet)]
    /\ UNCHANGED <<registryVars, environ, execution_mode>>

\* validate_executor_contracts called on its own: every path writes
\* validation_results['executor_contracts'][137].
ValidateExecutorContracts ==
    /\ validation_results' =
           [validation_results EXCEPT
                !.executor_contracts = DictSet(@, 137, validate_executor_contracts)]
    /\ startup_ret' = [op |-> "validate_executor_contracts",
                       mode |-> execution_mode,
                       ret |-> PyBool(validate_executor_contracts)]
    /\ UNCHANGED <<registryVars, environ, execution_mode>>

\* validate_safety_params called on its own: the parameters are recorded
\* only on the accepting path.
ValidateSafetyParams ==
    /\ validation_results' =
           [validation_results EXCEPT
                !.safety_params = validate_safety_params.params]
    /\ startup_ret' = [op |-> "validate_safety_params", mode |-> execution_mode,
                       ret |-> PyBool(validate_safety_params.ret)]
    /\ UNCHANGED <<registryVars, environ, execution_mode>>

\* validate_chain_rpcs called on its own: the registry's sweep, its dict
\* recorded in validation_results['chain_rpcs'], and results.get(137, False)
\* returned.
ValidateChainRpcs(probes) ==
    LET r == validate_loop([v |-> validated_rpcs, h |-> health_status],
                           get_configured_chains, probes, EmptyDict)
    IN
    /\ validated_rpcs' = r.v
    /\ health_status' = r.h
    /\ registry_ret' = [op |-> "validate_all_configured_chains", chain |-> 0,
                        ret |-> r.ret]
    /\ validation_results' = [validation_results EXCEPT !.chain_rpcs = r.ret]
    /\ startup_ret' = [op |-> "validate_chain_rpcs", mode |-> execution_mode,
                       ret |-> PyBool(validate_chain_rpcs(r.ret))]
    /\ UNCHANGED <<CHAIN_STATES, env_rpc, env_executor, environ, execution_mode>>

\* validate_system: the five checks, all of them run, then all(checks).
\* Every field the checks write is written again, executor_contracts[137]
\* and, on the accepting path, safety_params included; 'redis' is written
\* by nothing.
ValidateSystem(probes) ==
    LET r == validate_loop([v |-> validated_rpcs, h |-> health_status],
                           get_configured_chains, probes, EmptyDict)
        safety == validate_safety_params
        checks == << validate_execution_mode,
                     validate_chain_rpcs(r.ret),
                     validate_wallet,
                     validate_executor_contracts,
                     safety.ret >>
        overall == \A i \in 1..Len(checks) : checks[i]
    IN
    /\ validated_rpcs' = r.v
    /\ health_status' = r.h
    /\ registry_ret' = [op |-> "validate_all_configured_chains", chain |-> 0,
                        ret |-> r.ret]
    /\ validation_results' =
           [chain_rpcs |-> r.ret,
            execution_mode |-> PyBool(checks[1]),
            wallet |-> PyBool(checks[3]),
            executor_contracts |-> DictSet(validation_results.executor_contracts,
                                           137, checks[4]),
            redis |-> validation_results.redis,
            safety_params |-> safety.params,
            overall |-> overall]
    /\ startup_ret' = [op |-> "validate_system", mode |-> execution_mode,
                       ret |-> PyBool(overall)]
    /\ UNCHANGED <<CHAIN_STATES, env_rpc, env_executor, environ, execution_mode>>

(***************************************************************************)
(* ExecutionManager.submit_trade (execution/execution_client.py)           *)
(*                                                                         *)
(* One step per iteration of the retry loop: the coroutine is suspended in *)
(* execute_signal and in asyncio.sleep(1), nowhere else.  Several callers  *)
(* (coroutines of one loop, or threads each in asyncio.run) use the same   *)
(* manager: while one call is suspended another runs, on the same stats.   *)
(***************************************************************************)
\* What client.execute_signal comes back with: a result with success true; a
\* non-success result of the server (the trade was rejected); the result
\* {"success": False, "error": ...} execute_signal builds itself on a
\* timeout or transport error; an exception it lets through.
AttemptOutcomes == {"success", "rejected", "transport_error", "raises"}

\* The dict submit_trade returns.
SubmitResult(success, error) == [success |-> success, error |-> error]
NoSubmitResult == SubmitResult(FALSE, "")

SubmitCall(pc, attempt, outcomes, ret) ==
    [pc |-> pc, attempt |-> attempt, outcomes |-> outcomes, ret |-> ret,
     batch |-> 0]
NoSubmitCall == SubmitCall("idle", 0, <<>>, NoSubmitResult)

NoStats == [sent |-> 0, succeeded |-> 0, failed |-> 0, retried |-> 0]

\* The call up to the loop: the signal is built, stats["sent"] += 1, and
\* range(self.max_retries) is entered or, being empty, fallen through.
SubmitTradeEnter(k) ==
    /\ submit_call[k].pc \notin {"loop", "batch"}
    /\ stats' = [stats EXCEPT !.sent = @ + 1]
    /\ submit_call' = [submit_call EXCEPT ![k] =
           IF max_retries > 0
           THEN SubmitCall("loop", 0, <<>>, NoSubmitResult)
           ELSE SubmitCall("returned", 0, <<>>,
                           SubmitResult(FALSE, "Max retries exceeded"))]
    /\ UNCHANGED max_retries

\* The loop with its retry test off by one: one attempt too many.
SubmitTradeAttempt_one_more(k, outcome) ==
    LET attempt == submit_call[k].attempt
        outcomes == Append(submit_call[k].outcomes, outcome)
        error == CASE outcome = "rejected" -> "rejected by the executor"
                   [] outcome = "transport_error" -> "Timeout"
                   [] outcome = "raises" -> "str(e)"
                   [] OTHER -> ""
    IN
    /\ submit_call[k].pc = "loop"
    /\ IF outcome = "success"
       THEN /\ stats' = [stats EXCEPT !.succeeded = @ + 1]
            /\ submit_call' = [submit_call EXCEPT ![k] =
                                 SubmitCall("returned", attempt, outcomes,
                                         SubmitResult(TRUE, ""))]
       ELSE IF attempt < max_retries
       THEN /\ stats' = [stats EXCEPT !.retried = @ + 1]
            /\ submit_call' = [submit_call EXCEPT ![k] =
                                 SubmitCall("loop", attempt + 1, outcomes,
                                         NoSubmitResult)]
       ELSE /\ stats' = [stats EXCEPT !.failed = @ + 1]
            /\ submit_call' = [submit_call EXCEPT ![k] =
                                 SubmitCall("returned", attempt, outcomes,
                                         SubmitResult(FALSE, error))]
    /\ UNCHANGED max_retries

\* One iteration retrying every failure but the one of the last attempt.
\* (The loop as the source has it.)
SubmitTradeAttempt(k, outcome) ==
    LET attempt == submit_call[k].attempt
        outcomes == Append(submit_call[k].outcomes, outcome)
        error == CASE outcome = "rejected" -> "rejected by the executor"
                   [] outcome = "transport_error" -> "Timeout"
                   [] outcome = "raises" -> "str(e)"
                   [] OTHER -> ""
    IN
    /\ submit_call[k].pc = "loop"
    /\ IF outcome = "success"
       THEN /\ stats' = [stats EXCEPT !.succeeded = @ + 1]
            /\ submit_call' = [submit_call EXCEPT ![k] =
                                 SubmitCall("returned", attempt, outcomes,
                                         SubmitResult(TRUE, ""))]
       ELSE IF attempt < max_retries - 1
       THEN /\ stats' = [stats EXCEPT !.retried = @ + 1]
            /\ submit_call' = [submit_call EXCEPT ![k] =
                                 SubmitCall("loop", attempt + 1, outcomes,
                                         NoSubmitResult)]
       ELSE /\ stats' = [stats EXCEPT !.failed = @ + 1]
            /\ submit_call' = [submit_call EXCEPT ![k] =
                                 SubmitCall("returned", attempt, outcomes,
                                         SubmitResult(FALSE, error))]
    /\ UNCHANGED max_retries

\* submit_batch up to the await: the signals are built and counted as sent.
SubmitBatchEnter(k, n) ==
    /\ submit_call[k].pc \notin {"loop", "batch"}
    /\ stats' = [stats EXCEPT !.sent = @ + n]
    /\ submit_call' = [submit_call EXCEPT ![k] =
                           [SubmitCall("batch", 0, <<>>, NoSubmitResult)
                                EXCEPT !.batch = n]]
    /\ UNCHANGED max_retries

\* What client.execute_batch comes back with for n signals: whatever JSON
\* the server sent, unchecked, or the dict {"success": False, "error": ...}
\* it builds on a timeout or transport error. Of the dict only the keys
\* "succeeded" and "failed" are read; either may be missing, and a count
\* present is any number, here up to one more than the signals sent.
BatchAnswers(n) ==
    {r \in [keys : SUBSET {"succeeded", "failed"},
            succeeded : 0..(n + 1), failed : 0..(n + 1)] :
        /\ "succeeded" \notin r.keys => r.succeeded = 0
        /\ "failed" \notin r.keys => r.failed = 0}

\* result.get(key, 0)
ResultGet(result, key) == IF key \in result.keys THEN result[key] ELSE 0

\* submit_batch after the await: result.get("succeeded", 0) and
\* result.get("failed", 0) are added to the stats.
SubmitBatchReturn(k, result) ==
    /\ submit_call[k].pc = "batch"
    /\ stats' = [stats EXCEPT !.succeeded = @ + ResultGet(result, "succeeded"),
                              !.failed = @ + ResultGet(result, "failed")]
    /\ submit_call' = [submit_call EXCEPT ![k].pc = "batch_returned"]
    /\ UNCHANGED max_retries

(***************************************************************************)
(* OmniBrain: the opportunity graph (ml/brain.py)                          *)
(*                                                                         *)
(* A dict is carried with its keys in insertion order; the PyDiGraph is    *)
(* its node payloads and its edges in index order, indices counted from 0. *)
(***************************************************************************)
\* TokenDiscovery.BRIDGE_ASSETS
BRIDGE_ASSETS == <<"USDC", "USDT", "DAI", "WETH", "WBTC",
                   "USDC.e", "LINK", "UNI", "AAVE", "CRV">>

\* The keys of core.config.CHAINS, in the order the dict lists them.
CONFIG_CHAINS == <<1, 137, 42161, 10, 8453, 56, 43114, 250, 59144, 534352,
                   5000, 324, 81457, 42220, 204>>

\* The chains initialize() asks the token registry for: Polygon first, then
\* the other keys of CHAINS.
target_chains == <<137>> \o SelectSeq(CONFIG_CHAINS, LAMBDA c : c # 137)

SeqRange(q) == {q[i] : i \in 1..Len(q)}

\* TOKEN_REGISTRY: for every chain the symbols of its tokens, in the order
\* of the dict's keys.
TOKEN_REGISTRY ==
    [c \in SeqRange(CONFIG_CHAINS) |->
       CASE c = 1 -> <<"ETH", "WETH", "USDC", "USDT", "DAI", "WBTC", "LINK",
                       "UNI", "AAVE", "CRV">>
         [] c = 137 -> <<"MATIC", "WMATIC", "WETH", "USDC", "USDC.e", "USDT",
                         "DAI", "WBTC", "LINK", "UNI", "AAVE", "CRV">>
         [] c = 42161 -> <<"ETH", "WETH", "USDC", "USDC.e", "USDT", "DAI",
                           "WBTC", "LINK", "UNI", "ARB">>
         [] c = 10 -> <<"ETH", "WETH", "USDC", "USDC.e", "USDT", "DAI", "WBTC",
                        "OP">>
         [] c = 8453 -> <<"ETH", "WETH", "USDC", "DAI">>
         [] c = 56 -> <<"BNB", "WBNB", "USDC", "USDT", "BUSD", "DAI", "WETH",
                        "BTCB">>
         [] c = 43114 -> <<"AVAX", "WAVAX", "USDC", "USDT", "DAI", "WETH.e",
                           "WBTC.e">>
         [] c = 250 -> <<"FTM", "WFTM", "USDC", "DAI">>
         [] c = 59144 -> <<"ETH", "WETH", "USDC", "USDT", "DAI", "WBTC">>
         [] c = 534352 -> <<"ETH", "WETH", "USDC", "USDT", "DAI", "WBTC">>
         [] c = 5000 -> <<"MNT", "WMNT", "USDC", "USDT", "WETH", "mETH">>
         [] c = 324 -> <<"ETH", "WETH", "USDC", "USDC.e", "USDT", "DAI",
                         "WBTC">>
         [] c = 81457 -> <<"ETH", "WETH", "USDB", "BLAST">>
         [] c = 42220 -> <<"CELO", "WCELO", "cUSD", "cEUR", "cREAL", "USDC",
                           "USDT">>
         [] c = 204 -> <<"BNB", "WBNB", "USDT", "FDUSD">>]

\* TokenDiscovery.fetch_all_chains: the registry's entry for every chain
\* asked for, an empty dict for a chain the registry does not have.
fetch_all_chains(chain_ids) ==
    [c \in SeqRange(chain_ids) |->
        IF c \in DOMAIN TOKEN_REGISTRY THEN TOKEN_REGISTRY[c] ELSE <<>>]

\* Besides the registry as it is, the graph is built on smaller registries:
\* the chains of SmallChains carry any of the lists of TokenLists (the
\* subsets of three symbols, in either of two key orders), every other
\* chain carries nothing.
SmallChains == {137, 1, 42161}
TokenOrders == {<<"ETH", "WETH", "USDC">>, <<"USDC", "ETH", "WETH">>}
TokenLists ==
    {SelectSeq(o, LAMBDA t : t \in keep) :
         o \in TokenOrders, keep \in SUBSET {"ETH", "WETH", "USDC"}}
SmallInventory(held) ==
    [c \in SeqRange(target_chains) |-> IF c \in DOMAIN held THEN held[c] ELSE <<>>]
GraphInventories ==
    {SmallInventory(held) : held \in [SmallChains -> TokenLists]}

\* inventory[chain_id].items(): the chain's symbols in key order.
TokensOf(chain_id) == inventory[chain_id]

EmptyGraph == [nodes |-> <<>>, edges |-> <<>>]

\* The loop over one chain's tokens in _build_graph_nodes.
RECURSIVE AddTokenNodes(_, _, _)
AddTokenNodes(g, chain_id, symbols) ==
    IF symbols = <<>> THEN g
    ELSE LET node_key == <<chain_id, Head(symbols)>> IN
         IF node_key \in DOMAIN g.idx
         THEN AddTokenNodes(g, chain_id, Tail(symbols))
         ELSE AddTokenNodes(
                  [g EXCEPT !.nodes = Append(@, [chain |-> chain_id,
                                                  symbol |-> Head(symbols)]),
                            !.idx = DictSet(@, node_key, Len(g.nodes))],
                  chain_id, Tail(symbols))

\* _build_graph_nodes on the pair (graph nodes, node_indices).
RECURSIVE build_graph_nodes(_, _)
build_graph_nodes(g, chains) ==
    IF chains = <<>> THEN g
    ELSE build_graph_nodes(AddTokenNodes(g, Head(chains), TokensOf(Head(chains))),
                           Tail(chains))

\* The index pairs (i, j), i < j, in the order the two nested loops of
\* _build_bridge_edges visit them.
IndexPairs(n) ==
    SelectSeq([k \in 1..(n * n) |-> <<((k - 1) \div n) + 1, ((k - 1) % n) + 1>>],
              LAMBDA pr : pr[1] < pr[2])

BridgeEdge(u, v) == [u |-> u, v |-> v, type |-> "bridge"]

\* The one-way variant: only the edge from the earlier chain to the later.
SymbolEdges_one_way(idx, symbol) ==
    LET chains_with_asset ==
            SelectSeq(target_chains,
                      LAMBDA cid : symbol \in SeqRange(inventory[cid]))
        pairs == IndexPairs(Len(chains_with_asset))
    IN [m \in 1..Len(pairs) |->
           BridgeEdge(idx[<<chains_with_asset[pairs[m][1]], symbol>>],
                      idx[<<chains_with_asset[pairs[m][2]], symbol>>])]

\* The edges _build_bridge_edges adds for one symbol: for every pair of
\* chains carrying it, the edge u -> v and then the edge v -> u.
SymbolEdges(idx, symbol) ==
    LET chains_with_asset ==
            SelectSeq(target_chains,
                      LAMBDA cid : symbol \in SeqRange(inventory[cid]))
        pairs == IndexPairs(Len(chains_with_asset))
    IN [m \in 1..(2 * Len(pairs)) |->
           LET pr == pairs[(m + 1) \div 2]
               u == idx[<<chains_with_asset[pr[1]], symbol>>]
               v == idx[<<chains_with_asset[pr[2]], symbol>>]
           IN IF m % 2 = 1 THEN BridgeEdge(u, v) ELSE BridgeEdge(v, u)]

RECURSIVE build_bridge_edges(_, _, _)
build_bridge_edges(edges, idx, symbols) ==
    IF symbols = <<>> THEN edges
    ELSE build_bridge_edges(edges \o SymbolEdges(idx, Head(symbols)), idx,
                            Tail(symbols))

\* Step C of initialize(): _build_graph_nodes, then _build_bridge_edges.
BuildGraph ==
    LET built == build_graph_nodes([nodes |-> graph.nodes, idx |-> node_indices],
                                   target_chains)
    IN
    /\ brain_pc = "constructed"
    /\ node_indices' = built.idx
    /\ graph' = [nodes |-> built.nodes,
                 edges |-> build_bridge_edges(graph.edges, built.idx,
                                              BRIDGE_ASSETS)]
    /\ brain_pc' = "initialized"
    /\ UNCHANGED <<inventory, opportunities>>

\* _find_opportunities: one opportunity per bridge edge between two chains.
find_opportunities(g) ==
    LET src(e) == g.nodes[e.u + 1]
        dst(e) == g.nodes[e.v + 1]
        found == SelectSeq(g.edges,
                           LAMBDA e : e.type = "bridge"
                                      /\ src(e).chain # dst(e).chain)
    IN [i \in 1..Len(found) |->
           [src_chain |-> src(found[i]).chain,
            dst_chain |-> dst(found[i]).chain,
            token |-> src(found[i]).symbol]]

FindOpportunities ==
    /\ brain_pc = "initialized"
    /\ opportunities' = find_opportunities(graph)
    /\ brain_pc' = "scanned"
    /\ UNCHANGED <<inventory, node_indices, graph>>

(***************************************************************************)
(* Python numbers: int, float and Decimal                                  *)
(*                                                                         *)
(* A non-negative Python int is the sequence of its digits in some base,   *)
(* least significant first, without leading zeros; 0 is <<>>.  Base 2      *)
(* carries the ints that meet a float, base 10 the Decimal coefficients.   *)
(***************************************************************************)
Zero == <<>>

\* No recursion below runs deeper than the logarithm of a length.
Norm(a) ==
    IF \A i \in 1..Len(a) : a[i] = 0 THEN <<>>
    ELSE SubSeq(a, 1, CHOOSE i \in 1..Len(a) :
                          a[i] # 0 /\ \A j \in (i + 1)..Len(a) : a[j] = 0)

Digit(a, i) == IF i \in 1..Len(a) THEN a[i] ELSE 0
Longest(a, b) == IF Len(a) >= Len(b) THEN Len(a) ELSE Len(b)

\* An int below 2^31 has at most this many digits.
WordDigits(base) == IF base = 2 THEN 31 ELSE 10
FromInt(base, n) ==
    Norm([i \in 1..WordDigits(base) |-> (n \div (base ^ (i - 1))) % base])

\* The arithmetic runs on limbs, groups of digits, as CPython's own does.
LimbDigits(base) == IF base = 2 THEN 13 ELSE 4
LimbBase(base) == base ^ LimbDigits(base)

\* The value of the digits a[from + lo .. from + hi], weighted from base^lo.
RECURSIVE Pack(_, _, _, _, _)
Pack(base, a, from, lo, hi) ==
    IF lo = hi THEN Digit(a, from + lo) * (base ^ lo)
    ELSE LET mid == (lo + hi) \div 2 IN
         Pack(base, a, from, lo, mid) + Pack(base, a, from, mid + 1, hi)

ToLimbs(base, a) ==
    LET g == LimbDigits(base)
        n == (Len(a) + g - 1) \div g
    IN  SubSeq([j \in 1..n |-> Pack(base, a, g * (j - 1) + 1, 0, g - 1)], 1, n)

ToDigits(base, limbs) ==
    LET g == LimbDigits(base) IN
    Norm([i \in 1..(g * Len(limbs)) |->
              (limbs[(i - 1) \div g + 1] \div (base ^ ((i - 1) % g))) % base])

\* x + y on limbs: limb k receives a carry iff some lower limb overflows
\* and every limb in between is full.
LimbAdd(B, x, y) ==
    LET n == Longest(x, y) + 1
        s(k) == Digit(x, k) + Digit(y, k)
        c(k) == \E j \in 1..(k - 1) :
                    /\ s(j) >= B
                    /\ \A i \in (j + 1)..(k - 1) : s(i) = B - 1
    IN  SubSeq([k \in 1..n |-> (s(k) + IF c(k) THEN 1 ELSE 0) % B], 1, n)

\* x - y on limbs for x >= y: limb k lends iff some lower limb is short
\* and every limb in between is level.
LimbSub(B, x, y) ==
    LET n == Len(x)
        b(k) == \E j \in 1..(k - 1) :
                    /\ Digit(x, j) < Digit(y, j)
                    /\ \A i \in (j + 1)..(k - 1) : Digit(x, i) = Digit(y, i)
    IN  SubSeq([k \in 1..n |->
                    (x[k] - Digit(y, k) - (IF b(k) THEN 1 ELSE 0) + B) % B],
               1, n)

\* The sum of x[i] * y[k + 1 - i] over i in lo..hi.
RECURSIVE ColumnSum(_, _, _, _, _)
ColumnSum(x, y, k, lo, hi) ==
    IF lo > hi THEN 0
    ELSE IF lo = hi THEN x[lo] * Digit(y, k + 1 - lo)
    ELSE LET mid == (lo + hi) \div 2 IN
         ColumnSum(x, y, k, lo, mid) + ColumnSum(x, y, k, mid + 1, hi)

\* x * y on limbs: the column sums, below B^3, are split in three limbs.
LimbMul(B, x, y) ==
    LET n == Len(x) + Len(y)
        col == SubSeq([k \in 1..n |-> ColumnSum(x, y, k, 1, Len(x))], 1, n)
        low == SubSeq([k \in 1..n |-> col[k] % B], 1, n)
        mid == SubSeq([k \in 1..(n + 1) |->
                           IF k = 1 THEN 0 ELSE (col[k - 1] \div B) % B],
                      1, n + 1)
        high == SubSeq([k \in 1..(n + 2) |->
                            IF k <= 2 THEN 0 ELSE col[k - 2] \div (B * B)],
                       1, n + 2)
    IN  LimbAdd(B, LimbAdd(B, low, mid), high)

BigAdd(base, a, b) ==
    ToDigits(base, LimbAdd(LimbBase(base), ToLimbs(base, a), ToLimbs(base, b)))

\* a - b for a >= b.
BigSub(base, a, b) ==
    ToDigits(base, LimbSub(LimbBase(base), ToLimbs(base, a), ToLimbs(base, b)))

BigMul(base, a, b) ==
    ToDigits(base, LimbMul(LimbBase(base), ToLimbs(base, a), ToLimbs(base, b)))

BigLess(a, b) ==
    IF Len(a) # Len(b) THEN Len(a) < Len(b)
    ELSE \E i \in 1..Len(a) :
             /\ a[i] < b[i]
             /\ \A j \in (i + 1)..Len(a) : a[j] = b[j]

BigLessEq(a, b) == a = b \/ BigLess(a, b)

\* a * base^n and a \div base^n.
ShiftLeft(a, n) == IF a = <<>> THEN <<>> ELSE [i \in 1..n |-> 0] \o a
ShiftRight(a, n) == IF n >= Len(a) THEN <<>> ELSE SubSeq(a, n + 1, Len(a))

\* 10^n.
RECURSIVE TenTo(_, _)
TenTo(base, n) ==
    IF n <= 9 THEN FromInt(base, 10 ^ n)
    ELSE BigMul(base, FromInt(base, 10 ^ 9), TenTo(base, n - 9))

\* Round a to at most p significant digits, ties to even: the result is
\* m * base^e.  This is the rounding of IEEE-754 binary64 (base 2, p = 53)
\* and of decimal's default context (base 10, ROUND_HALF_EVEN).
RoundHalfEven(base, a, p) ==
    LET n == Len(a)
        s == IF n > p THEN n - p ELSE 0
        q == ShiftRight(a, s)
        half == base \div 2
        sticky == \E i \in 1..(s - 1) : a[i] # 0
        up == /\ s > 0
              /\ \/ a[s] > half
                 \/ a[s] = half /\ (sticky \/ q[1] % 2 = 1)
    IN  [m |-> IF up THEN BigAdd(base, q, <<1>>) ELSE q, e |-> s]

\* ---- float: m * 2^e with m of at most 53 bits (binary64, normal range).
MantissaBits == 53

\* The bits of a hexadecimal numeral, most significant digit first.
FromHex(h) ==
    Norm([i \in 1..(4 * Len(h)) |->
              (h[Len(h) - (i - 1) \div 4] \div (2 ^ ((i - 1) % 4))) % 2])

\* float(n) for an int n.
int_to_float(n) == RoundHalfEven(2, n, MantissaBits)

\* x * y on floats: the exact product, rounded once.
float_mul(x, y) ==
    LET r == RoundHalfEven(2, BigMul(2, x.m, y.m), MantissaBits) IN
    [m |-> r.m, e |-> r.e + x.e + y.e]

\* int(x) for a non-negative float: truncation.
float_to_int(x) ==
    IF x.e >= 0 THEN ShiftLeft(x.m, x.e) ELSE ShiftRight(x.m, 0 - x.e)

(***************************************************************************)
(* core/titan_commander_core.py: TitanCommander.optimize_loan_size         *)
(***************************************************************************)
\* self.MAX_TVL_SHARE = 0.20, the double 0x1.999999999999ap-3.
MAX_TVL_SHARE ==
    [m |-> FromHex(<<1, 9, 9, 9, 9, 9, 9, 9, 9, 9, 9, 9, 9, 10>>), e |-> 0 - 55]

min_floor_units == 500

\* core/titan_simulation_engine.py: get_provider_tvl swallows every failure
\* of the engine and answers 0.
get_provider_tvl(engine, balance) ==
    IF engine = "engine_raises" THEN Zero ELSE balance

optimize_loan_size(engine, balance, target_amount_raw, decimals) ==
    IF engine = "query_raises" THEN Zero
    ELSE LET pool_liquidity == get_provider_tvl(engine, balance) IN
         IF pool_liquidity = Zero THEN Zero
         ELSE LET max_cap == float_to_int(float_mul(int_to_float(pool_liquidity),
                                                    MAX_TVL_SHARE))
                  requested_amount == IF BigLess(max_cap, target_amount_raw)
                                      THEN max_cap ELSE target_amount_raw
                  min_floor == BigMul(2, FromInt(2, min_floor_units),
                                      TenTo(2, decimals))
              IN  IF BigLess(requested_amount, min_floor) THEN Zero
                  ELSE requested_amount

\* The raw amount mantissa * 10^exponent + adjust.
Amount(mantissa, exponent, adjust) ==
    LET a == BigMul(2, FromInt(2, mantissa), TenTo(2, exponent)) IN
    IF adjust < 0 THEN BigSub(2, a, FromInt(2, 0 - adjust))
    ELSE BigAdd(2, a, FromInt(2, adjust))

Engines == {"balance", "engine_raises", "query_raises"}
\* Vault balances: empty, 1 and 30,000 USDC, and 18-decimals tokens
\* around the floor and around the scan loop's request of 10,000 tokens.
Liquidities ==
    { Zero, Amount(1, 6, 0), Amount(3, 10, 0), Amount(2499, 18, 0),
      Amount(25, 20, -1), Amount(25, 20, 0), Amount(5, 22, -1),
      Amount(5, 22, 0), Amount(1, 24, 0) }
Targets ==
    { Amount(5, 5, 0), Amount(1, 10, 0), Amount(499, 18, 0), Amount(5, 20, 0),
      Amount(1, 22, 0), Amount(3, 23, 0) }
DecimalsOf == {6, 18}

LoanCall(engine, balance, target, decimals, done, ret) ==
    [engine |-> engine, balance |-> balance, target |-> target,
     decimals |-> decimals, done |-> done, ret |-> ret]
NoLoanCall == LoanCall("balance", Zero, Zero, 18, FALSE, Zero)

OptimizeLoanSize ==
    /\ ~loan_call.done
    /\ loan_call' = [loan_call EXCEPT
           !.done = TRUE,
           !.ret = optimize_loan_size(loan_call.engine, loan_call.balance,
                                      loan_call.target, loan_call.decimals)]

(***************************************************************************)
(* decimal.Decimal under getcontext().prec = 28                            *)
(***************************************************************************)
\* (-1)^neg * coef * 10^exp, coef in base 10.
prec == 28

Dec(coefficient, exponent) ==
    [neg |-> FALSE, coef |-> FromInt(10, coefficient), exp |-> exponent]

DecNeg(x) == [x EXCEPT !.neg = ~x.neg]
DecIsZero(x) == x.coef = <<>>
DecGtZero(x) == ~x.neg /\ x.coef # <<>>

\* The exact sum and product.
DecAddExact(x, y) ==
    LET e == IF x.exp <= y.exp THEN x.exp ELSE y.exp
        cx == ShiftLeft(x.coef, x.exp - e)
        cy == ShiftLeft(y.coef, y.exp - e)
    IN  IF x.neg = y.neg
        THEN [neg |-> x.neg, coef |-> BigAdd(10, cx, cy), exp |-> e]
        ELSE IF BigLess(cx, cy)
             THEN [neg |-> y.neg, coef |-> BigSub(10, cy, cx), exp |-> e]
             ELSE [neg |-> x.neg /\ cx # cy, coef |-> BigSub(10, cx, cy),
                   exp |-> e]

DecMulExact(x, y) ==
    [neg |-> x.neg # y.neg, coef |-> BigMul(10, x.coef, y.coef),
     exp |-> x.exp + y.exp]

\* The context's rounding: at most prec digits, ROUND_HALF_EVEN. When the
\* round-up carries out of the top digit (99...9 -> 100...0, prec + 1
\* digits) the coefficient is cut back to prec digits, 10^(prec - 1), and
\* the exponent is one higher.
DecRound(x) ==
    LET r == RoundHalfEven(10, x.coef, prec)
        carried == Len(r.m) > prec
    IN  [neg |-> x.neg,
         coef |-> IF carried THEN ShiftRight(r.m, 1) ELSE r.m,
         exp |-> x.exp + r.e + (IF carried THEN 1 ELSE 0)]

\* Decimal's +, - and *: the exact result, rounded once.
DecAdd(x, y) == DecRound(DecAddExact(x, y))
DecSub(x, y) == DecRound(DecAddExact(x, DecNeg(y)))
DecMul(x, y) == DecRound(DecMulExact(x, y))

\* Numerical equality (2.00 == 2).
DecEq(x, y) == DecIsZero(DecAddExact(x, DecNeg(y)))

(***************************************************************************)
(* ml/brain.py: ProfitEngine                                               *)
(***************************************************************************)
ProfitResult(net_profit, gross_spread, total_fees, is_profitable) ==
    [net_profit |-> net_profit, gross_spread |-> gross_spread,
     total_fees |-> total_fees, is_profitable |-> is_profitable]

\* Faulty variant: net_profit >= 0 counts as profitable.
calculate_enhanced_profit_nonstrict(flash_fee, amount, amount_out, bridge_fee_usd, gas_cost_usd) ==
    LET gross_revenue_usd == amount_out
        loan_cost_usd == amount
        flash_fee_cost == DecMul(amount, flash_fee)
        total_operational_costs ==
            DecAdd(DecAdd(bridge_fee_usd, gas_cost_usd), flash_fee_cost)
        net_profit ==
            DecSub(DecSub(gross_revenue_usd, loan_cost_usd),
                   total_operational_costs)
    IN  ProfitResult(net_profit, DecSub(gross_revenue_usd, loan_cost_usd),
                     total_operational_costs,
                     DecGtZero(net_profit) \/ DecIsZero(net_profit))

calculate_enhanced_profit(flash_fee, amount, amount_out, bridge_fee_usd, gas_cost_usd) ==
    LET gross_revenue_usd == amount_out
        loan_cost_usd == amount
        flash_fee_cost == DecMul(amount, flash_fee)
        total_operational_costs ==
            DecAdd(DecAdd(bridge_fee_usd, gas_cost_usd), flash_fee_cost)
        net_profit ==
            DecSub(DecSub(gross_revenue_usd, loan_cost_usd),
                   total_operational_costs)
    IN  ProfitResult(net_profit, DecSub(gross_revenue_usd, loan_cost_usd),
                     total_operational_costs, DecGtZero(net_profit))

\* USD amounts: whole dollars, dollars with one wei of an 18-decimals
\* token, one wei alone, and a hundred billion.
LoanAmountsUsd ==
    { Dec(0, 0), Dec(10000, 0), DecAddExact(Dec(10000, 0), Dec(1, -18)),
      Dec(1, -18), Dec(999850, -2) }
OutputAmountsUsd ==
    { Dec(0, 0), Dec(10000, 0), Dec(10002, 0), Dec(1000350, -2),
      DecAddExact(Dec(10002, 0), Dec(1, -18)), Dec(1, 11) }
BridgeFeesUsd == {Dec(0, 0), Dec(150, -2)}
GasCostsUsd == {Dec(0, 0), Dec(200, -2)}
FlashFees == {Dec(0, -1), Dec(9, -4)}

ProfitCall(flash_fee, amount, amount_out, bridge_fee_usd, gas_cost_usd, done, ret) ==
    [flash_fee |-> flash_fee, amount |-> amount, amount_out |-> amount_out,
     bridge_fee_usd |-> bridge_fee_usd, gas_cost_usd |-> gas_cost_usd,
     done |-> done, ret |-> ret]
NoProfitResult == ProfitResult(Dec(0, 0), Dec(0, 0), Dec(0, 0), FALSE)
NoProfitCall ==
    ProfitCall(Dec(0, -1), Dec(0, 0), Dec(0, 0), Dec(0, 0), Dec(0, 0), FALSE,
               NoProfitResult)

CalculateEnhancedProfit ==
    /\ ~profit_call.done
    /\ profit_call' = [profit_call EXCEPT
           !.done = TRUE,
           !.ret = calculate_enhanced_profit(
                       profit_call.flash_fee, profit_call.amount,
                       profit_call.amount_out, profit_call.bridge_fee_usd,
                       profit_call.gas_cost_usd)]

(***************************************************************************)
(* The executors' specification                                            *)
(***************************************************************************)
MaxTrades == 2
MaxPaperTrades == 1
MaxResults == 1
\* MAX_CONCURRENT_TXS is configured from 1 up to this.
MaxConcurrentTxs == 2
\* Calls the router specification sends to the Live executor.
MaxRoutedLive == 2
\* Trades submitted around the calls of pre_execution_checks.
MaxInFlight == 2
\* Results the execution bot delivers.
MaxDeliveries == 2
\* max_retries is configured from 0 up to this (3 is the default), and
\* this many trades are submitted.
MaxRetriesTried == 3
MaxSubmits == 2
\* Callers using one ExecutionManager at the same time, and the most
\* signals in one submit_batch.
NumCallers == 2
Callers == 1..NumCallers
MaxBatch == 2
\* Calls of the Hybrid manager on its own.
MaxHybridCalls == 1
\* Threads calling execute_trade on one executor, and calls they make in all.
NumWorkers == 2
MaxWorkerTrades == 2
Workers == 1..NumWorkers

\* Trade ids a result can be reported for.
ReportedIds == {<<"LIVE", c, n>> : c \in SignalChains, n \in 1..MaxTrades}

InitRegistryIdle ==
    /\ CHAIN_STATES = InitialChainStates
    /\ env_rpc = [c \in MetadataChains |-> None]
    /\ env_executor = [c \in MetadataChains |-> None]
    /\ validated_rpcs = EmptyDict
    /\ health_status = EmptyDict
    /\ registry_ret = NoCall

InitExecutors ==
    /\ PRIVATE_KEY \in EnvValues
    /\ EXECUTOR_ADDRESS \in EnvValues
    /\ redis_enabled \in BOOLEAN
    /\ max_concurrent_txs \in 1..MaxConcurrentTxs
    /\ pending_txs = {}
    /\ published = {}
    /\ live_total_trades = 0
    /\ live_successful_trades = 0
    /\ live_total_profit = 0
    /\ live_trade_history = <<>>
    /\ paper_total_trades = 0
    /\ paper_successful_trades = 0
    /\ paper_total_profit = 0
    /\ paper_current_capital = 0
    /\ paper_trade_history = 0
    /\ last_result = NoResult

InitExecutorsIdle ==
    /\ PRIVATE_KEY = "None"
    /\ EXECUTOR_ADDRESS = "None"
    /\ redis_enabled = FALSE
    /\ max_concurrent_txs = 1
    /\ pending_txs = {}
    /\ published = {}
    /\ live_total_trades = 0
    /\ live_successful_trades = 0
    /\ live_total_profit = 0
    /\ live_trade_history = <<>>
    /\ paper_total_trades = 0
    /\ paper_successful_trades = 0
    /\ paper_total_profit = 0
    /\ paper_current_capital = 0
    /\ paper_trade_history = 0
    /\ last_result = NoResult

InitBrainIdle ==
    /\ loan_call = NoLoanCall
    /\ profit_call = NoProfitCall

InitGraphIdle ==
    /\ brain_pc = "constructed"
    /\ inventory = [c \in {} |-> <<>>]
    /\ node_indices = EmptyDict
    /\ graph = EmptyGraph
    /\ opportunities = <<>>

InitManagerIdle ==
    /\ max_retries = 3
    /\ stats = NoStats
    /\ submit_call = [k \in Callers |-> NoSubmitCall]

InitScanIdle ==
    /\ scan_pc = "not_started"
    /\ cycle = 0
    /\ chain_gas_map = EmptyDict
    /\ pool = {}
    /\ f = {}
    /\ yielded = {}

InitStartupIdle ==
    /\ environ = [EXECUTION_MODE |-> "None", MAX_BASE_FEE_GWEI |-> "None",
                  MIN_PROFIT_USD |-> "None", MAX_SLIPPAGE_BPS |-> "None"]
    /\ execution_mode = "PAPER"
    /\ validation_results = NoValidationResults
    /\ startup_ret = NoStartupCall
    /\ validator_calls = 0

InitWorkersIdle ==
    workers = [w \in Workers |-> IdleWorker]

vars == <<registryVars, execVars, brainVars, workerVars, managerVars, graphVars, startupVars, scanVars>>

Init == InitRegistryIdle /\ InitExecutors /\ InitBrainIdle /\ InitWorkersIdle /\ InitManagerIdle /\ InitGraphIdle /\ InitStartupIdle /\ InitScanIdle

LiveStep ==
    /\ live_total_trades < MaxTrades
    /\ \E sig \in Signals, redis \in RedisOutcomes : LiveExecuteTrade(sig, redis)
    /\ UNCHANGED <<registryVars, brainVars, workerVars, managerVars, graphVars, startupVars, scanVars>>

RecordStep ==
    /\ Len(live_trade_history) < MaxResults
    /\ \E id \in ReportedIds, result \in ExecutionResults, srem_ok \in BOOLEAN :
           RecordExecutionResult(id, result, srem_ok)
    /\ UNCHANGED <<registryVars, brainVars, workerVars, managerVars, graphVars, startupVars, scanVars>>

Next == LiveStep \/ RecordStep

\* The Live executor, called directly, and the results reported back.
Spec == Init /\ [][Next]_vars

SubmitStep ==
    /\ live_total_trades < MaxInFlight
    /\ \E sig \in Signals, redis \in RedisOutcomes : LiveExecuteTrade(sig, redis)
    /\ UNCHANGED <<registryVars, brainVars, workerVars, managerVars, graphVars, startupVars, scanVars>>

PreCheckStep ==
    /\ \E sig \in Signals, redis \in RedisOutcomes :
           /\ redis.write = "ok"
           /\ CallPreExecutionChecks(sig, redis)
    /\ UNCHANGED <<registryVars, brainVars, workerVars, managerVars, graphVars, startupVars, scanVars>>

NextPreflight == SubmitStep \/ PreCheckStep

\* pre_execution_checks called on its own, as the tests do, between trades.
SpecPreflight == Init /\ [][NextPreflight]_vars

InitWorkers ==
    /\ InitRegistryIdle
    /\ InitExecutors
    /\ InitBrainIdle
    /\ InitWorkersIdle /\ InitManagerIdle /\ InitGraphIdle /\ InitStartupIdle /\ InitScanIdle

EnterStep ==
    /\ live_total_trades < MaxWorkerTrades
    /\ \E w \in Workers, sig \in Signals : WorkerEnter(w, sig)
    /\ UNCHANGED <<registryVars, brainVars, managerVars, graphVars, startupVars, scanVars>>

\* SCARD answers in this specification: the in-flight store is available.
ScardStep ==
    /\ \E w \in Workers, redis \in RedisOutcomes :
           /\ redis.scard
           /\ redis.write = "ok"
           /\ WorkerPreExecutionChecks(w, redis)
    /\ UNCHANGED <<registryVars, brainVars, managerVars, graphVars, startupVars, scanVars>>

SaddStep ==
    /\ \E w \in Workers, redis \in RedisOutcomes :
           /\ redis.scard
           /\ WorkerSadd(w, redis)
    /\ UNCHANGED <<registryVars, brainVars, managerVars, graphVars, startupVars, scanVars>>

PublishStep ==
    /\ \E w \in Workers, redis \in RedisOutcomes :
           /\ redis.scard
           /\ WorkerPublish(w, redis)
    /\ UNCHANGED <<registryVars, brainVars, managerVars, graphVars, startupVars, scanVars>>

NextWorkers == EnterStep \/ ScardStep \/ SaddStep \/ PublishStep

\* Concurrent execute_trade calls, interleaved at their Redis commands.
SpecWorkers == InitWorkers /\ [][NextWorkers]_vars

PaperStep ==
    /\ paper_total_trades < MaxPaperTrades
    /\ \E sig \in Signals : PaperExecuteTrade(sig)
    /\ UNCHANGED <<registryVars, brainVars, workerVars, managerVars, graphVars, startupVars, scanVars>>

HybridStep ==
    /\ live_total_trades < MaxRoutedLive
    /\ paper_total_trades < MaxPaperTrades
    /\ \E sig \in Signals, redis \in RedisOutcomes : HybridExecuteTrade(sig, redis)
    /\ UNCHANGED <<registryVars, brainVars, workerVars, managerVars, graphVars, startupVars, scanVars>>

NextRouter == PaperStep \/ HybridStep

\* The Paper simulator, called directly and through the Hybrid manager.
SpecRouter == Init /\ [][NextRouter]_vars

DeliverStep ==
    /\ Len(live_trade_history) < MaxDeliveries
    /\ \E id \in ReportedIds, result \in ExecutionResults, srem_ok \in BOOLEAN :
           RecordExecutionResult(id, result, srem_ok)
    /\ UNCHANGED <<registryVars, brainVars, workerVars, managerVars, graphVars, startupVars, scanVars>>

NextDelivery == SubmitStep \/ DeliverStep

\* Results delivered by the execution bot, possibly more than once.
SpecDelivery == Init /\ [][NextDelivery]_vars

RouteStep ==
    /\ live_total_trades + paper_total_trades < MaxHybridCalls
    /\ \E sig \in Signals, redis \in RedisOutcomes : HybridExecuteTrade(sig, redis)
    /\ UNCHANGED <<registryVars, brainVars, workerVars, managerVars, graphVars, startupVars, scanVars>>

\* The Hybrid manager on its own.
SpecHybrid == Init /\ [][RouteStep]_vars

\* What execute_signal can hand to submit_trade: it catches every Exception
\* itself, so nothing is raised through it.
ClientOutcomes == AttemptOutcomes \ {"raises"}

InitManager ==
    /\ InitRegistryIdle
    /\ InitExecutorsIdle
    /\ InitBrainIdle
    /\ InitWorkersIdle
    /\ InitGraphIdle /\ InitStartupIdle /\ InitScanIdle
    /\ max_retries \in 0..MaxRetriesTried
    /\ stats = NoStats
    /\ submit_call = [k \in Callers |-> NoSubmitCall]

SubmitTradeStep ==
    /\ stats.sent < MaxSubmits
    /\ \E k \in Callers : SubmitTradeEnter(k)
    /\ UNCHANGED <<registryVars, execVars, brainVars, workerVars, graphVars, startupVars, scanVars>>

ManagerFrame ==
    UNCHANGED <<registryVars, execVars, brainVars, workerVars, graphVars,
                startupVars, scanVars>>

\* One iteration of caller k's retry loop.
CallerAttempt(k) == \E outcome \in ClientOutcomes : SubmitTradeAttempt(k, outcome)

AttemptStep ==
    /\ \E k \in Callers : CallerAttempt(k)
    /\ ManagerFrame

NextManager == SubmitTradeStep \/ AttemptStep

\* submit_trade called again and again. Every execute_signal ends (it runs
\* under the client's timeout) and every sleep ends, so an iteration that
\* can run does run.
SpecManager ==
    InitManager /\ [][NextManager]_vars
        /\ \A k \in Callers : WF_vars(CallerAttempt(k) /\ ManagerFrame)

BatchEnterStep ==
    /\ \E k \in Callers, n \in 0..MaxBatch :
           /\ stats.sent + n <= MaxSubmits
           /\ stats.succeeded + stats.failed <= MaxSubmits
           /\ SubmitBatchEnter(k, n)
    /\ UNCHANGED <<registryVars, execVars, brainVars, workerVars, graphVars, startupVars, scanVars>>

BatchReturnStep ==
    /\ \E k \in Callers :
           \E result \in BatchAnswers(submit_call[k].batch) :
               SubmitBatchReturn(k, result)
    /\ UNCHANGED <<registryVars, execVars, brainVars, workerVars, graphVars, startupVars, scanVars>>

NextManagerBatch ==
    SubmitTradeStep \/ AttemptStep \/ BatchEnterStep \/ BatchReturnStep

\* submit_trade and submit_batch called in any order by the callers.
SpecManagerBatch == InitManager /\ [][NextManagerBatch]_vars

\* initialize(), step A: the inventory is what fetch_all_chains returns for
\* target_chains, from TOKEN_REGISTRY as it is or from a smaller registry.
InitGraph ==
    /\ InitRegistryIdle
    /\ InitExecutorsIdle
    /\ InitBrainIdle
    /\ InitWorkersIdle
    /\ InitManagerIdle
    /\ InitStartupIdle /\ InitScanIdle
    /\ brain_pc = "constructed"
    /\ inventory \in {fetch_all_chains(target_chains)} \cup GraphInventories
    /\ node_indices = EmptyDict
    /\ graph = EmptyGraph
    /\ opportunities = <<>>

BuildStep ==
    /\ BuildGraph
    /\ UNCHANGED <<registryVars, execVars, brainVars, workerVars, managerVars, startupVars, scanVars>>

FindStep ==
    /\ FindOpportunities
    /\ UNCHANGED <<registryVars, execVars, brainVars, workerVars, managerVars, startupVars, scanVars>>

NextGraph == BuildStep \/ FindStep

\* initialize() builds the graph once; the scan loop then reads it.
SpecGraph == InitGraph /\ [][NextGraph]_vars

(***************************************************************************)
(* Startup validation                                                      *)
(***************************************************************************)
\* The safety settings all unset.
DefaultSafety ==
    [MAX_BASE_FEE_GWEI |-> "None", MIN_PROFIT_USD |-> "None",
     MAX_SLIPPAGE_BPS |-> "None"]

\* The validator as constructed: execution_mode is EXECUTION_MODE (default
\* PAPER) in upper case. The registry's environment is any of RegistryEnvs.
\* In live mode with the default safety settings the key and the Polygon
\* executor address take every value (unset, placeholder, malformed, set);
\* with the other modes and safety settings both are set.
InitStartup ==
    /\ CHAIN_STATES = InitialChainStates
    /\ env_rpc \in RegistryEnvs
    /\ env_executor \in
           { [c \in MetadataChains |-> IF c = 137 THEN a ELSE None] :
                 a \in {None, Str(<<"0xYOUR_DEPLOYED_CONTRACT_ADDRESS_HERE">>),
                        Str(<<"0xExecutor">>)} }
    /\ validated_rpcs = EmptyDict
    /\ health_status = EmptyDict
    /\ registry_ret = NoCall
    /\ PRIVATE_KEY \in WalletKeys
    /\ EXECUTOR_ADDRESS = "None"
    /\ redis_enabled = FALSE
    /\ max_concurrent_txs = 1
    /\ pending_txs = {}
    /\ published = {}
    /\ live_total_trades = 0
    /\ live_successful_trades = 0
    /\ live_total_profit = 0
    /\ live_trade_history = <<>>
    /\ paper_total_trades = 0
    /\ paper_successful_trades = 0
    /\ paper_total_profit = 0
    /\ paper_current_capital = 0
    /\ paper_trade_history = 0
    /\ last_result = NoResult
    /\ InitBrainIdle /\ InitWorkersIdle /\ InitManagerIdle /\ InitGraphIdle /\ InitScanIdle
    /\ \E mode \in {"None", "PAPER", "live", "hybrid", ""}, safety \in SafetyEnvs :
           /\ environ = [EXECUTION_MODE |-> mode,
                         MAX_BASE_FEE_GWEI |-> safety.MAX_BASE_FEE_GWEI,
                         MIN_PROFIT_USD |-> safety.MIN_PROFIT_USD,
                         MAX_SLIPPAGE_BPS |-> safety.MAX_SLIPPAGE_BPS]
           /\ (mode # "live" \/ safety # DefaultSafety)
              => /\ PRIVATE_KEY = "configured"
                 /\ env_executor[137] = Str(<<"0xExecutor">>)
    /\ execution_mode = Upper(Getenv("EXECUTION_MODE", "PAPER"))
    /\ validation_results = NoValidationResults
    /\ startup_ret = NoStartupCall
    /\ validator_calls = 0

\* Calls made on one validator in a behaviour.
MaxValidatorCalls == 2

StartupFrame ==
    /\ validator_calls' = validator_calls + 1
    /\ UNCHANGED <<execVars, brainVars, workerVars, managerVars, graphVars,
                   scanVars>>

ValidateSystemStep ==
    /\ validator_calls < MaxValidatorCalls
    /\ \E probes \in [MetadataChains -> SweepProbes] : ValidateSystem(probes)
    /\ StartupFrame

ValidateExecutionModeStep ==
    /\ validator_calls < MaxValidatorCalls
    /\ ValidateExecutionMode
    /\ StartupFrame

ValidateWalletStep ==
    /\ validator_calls < MaxValidatorCalls
    /\ ValidateWallet
    /\ StartupFrame

ValidateExecutorContractsStep ==
    /\ validator_calls < MaxValidatorCalls
    /\ ValidateExecutorContracts
    /\ StartupFrame

ValidateSafetyParamsStep ==
    /\ validator_calls < MaxValidatorCalls
    /\ ValidateSafetyParams
    /\ StartupFrame

ValidateChainRpcsStep ==
    /\ validator_calls < MaxValidatorCalls
    /\ \E probes \in [MetadataChains -> SweepProbes] : ValidateChainRpcs(probes)
    /\ StartupFrame

NextStartup ==
    \/ ValidateSystemStep
    \/ ValidateExecutionModeStep
    \/ ValidateWalletStep
    \/ ValidateExecutorContractsStep
    \/ ValidateSafetyParamsStep
    \/ ValidateChainRpcsStep

\* One SystemReadinessValidator: validate_system and each of the checks it
\* is made of are public methods, called in any order and any number of
\* times; the nodes may answer differently at every sweep.
SpecStartup == InitStartup /\ [][NextStartup]_vars

(***************************************************************************)
(* OmniBrain.scan_loop and the worker pool                                 *)
(***************************************************************************)
\* ThreadPoolExecutor(max_workers=20): at most this many tasks run at once.
max_workers == 20

\* Iterations of 'while True' the model follows.
MaxCycles == 2

\* What w3.eth.gas_price yields in gwei; _get_gas_price returns 0.0 when the
\* call raises.
GasPrices == {0, 30}

\* Inventories the scan is started on: no bridgeable token (no edge), USDC
\* on two chains (2 edges), USDC on three chains (6 edges).
ScanInventories ==
    { SmallInventory([c \in {137, 1, 42161} |-> <<>>]),
      SmallInventory([c \in {137, 1} |-> <<"USDC">>]),
      SmallInventory([c \in {137, 1, 42161} |-> <<"USDC">>]) }

\* The environments the scan is run in: RPC_<NAME> of every chain of
\* core.config.CHAINS, set for none, for Polygon, for Polygon and Optimism,
\* or for Ethereum, Polygon and Arbitrum.
ScanEnvs ==
    {[c \in SeqRange(CONFIG_CHAINS) |-> IF c \in set THEN GoodUrl ELSE None] :
         set \in {{}, {137}, {137, 10}, {1, 137, 42161}}}

\* What scan_loop is started on: every environment with the inventories of
\* at most two edges, and the inventory of six edges with Polygon connected
\* alone.
ScanStarts ==
    {[env |-> e, inventory |-> i] : e \in ScanEnvs, i \in ScanInventories}
    \ {st \in [env : ScanEnvs, inventory : ScanInventories] :
           /\ Len(st.inventory[42161]) > 0
           /\ {c \in DOMAIN st.env : Truthy(st.env[c])} # {137}}

\* initialize(), step B: one connection per chain of core.config.CHAINS
\* whose 'rpc' (os.getenv of its RPC_<NAME>) is set.
web3_connections ==
    {c \in SeqRange(CONFIG_CHAINS) \cap DOMAIN env_rpc : Truthy(env_rpc[c])}

\* A task handed to self.executor.submit. kind "gas" runs _get_gas_price on
\* chain arg; kind "eval" runs _evaluate_and_signal on candidate number arg.
\* guard, safe_amount, quoted, submitted and amount record how far the
\* evaluation got: the result of optimize_loan_size, whether get_route was
\* called, whether submit_trade was called and with what amount.
Task(n, kind, arg) ==
    [cycle |-> n, kind |-> kind, arg |-> arg, state |-> "pending",
     ret |-> 0, exception |-> "None",
     guard |-> "not_run", safe_amount |-> 0, quoted |-> FALSE,
     submitted |-> FALSE, amount |-> 0]

Futures(n, kind) == {t \in pool : t.cycle = n /\ t.kind = kind}
Running == {t \in pool : t.state = "running"}

\* _get_gas_price: the price, or 0.0 from the except branch.
get_gas_price(t, price) ==
    [t EXCEPT !.state = "done", !.ret = price]

\* _evaluate_and_signal: the name TitanCommander is not bound in ml/brain.py
\* (it is neither imported nor defined there), so the first statement of the
\* liquidity guard raises NameError; no later step of the evaluation runs.
evaluate_and_signal(t) ==
    [t EXCEPT !.state = "done", !.exception = "NameError"]

\* as_completed(fs) in the gas join (line 326): the comprehension has read
\* every future when all of them are done.
as_completed(fs) == \A fut \in fs : fut.state = "done"

\* Line 326 calls f.result() on every gas future, which re-raises the
\* task's exception in the control thread.
GasJoinRaises(fs) == \E fut \in fs : fut.exception # "None"

\* The futures the loop over as_completed(scan_futures) has still to be
\* handed: as_completed yields each future of fs once. The faulty variant
\* leaves the loop after the first.
Remaining_first(fs) == IF yielded = {} THEN fs ELSE {}
Remaining(fs) == fs \ yielded

\* Lines 349-350: the body of the loop over the scan futures is 'pass', so
\* no result is read and no exception of a task reaches the control thread.
EvalJoinRaises_result(fs) == \E fut \in fs : fut.exception # "None"
EvalJoinRaises(fs) == FALSE

ScanFrame ==
    UNCHANGED <<registryVars, execVars, brainVars, workerVars, managerVars,
                startupVars>>

\* __main__: scan_loop() is entered after initialize().
ScanStart ==
    /\ scan_pc = "not_started"
    /\ brain_pc = "initialized"
    /\ scan_pc' = "top"
    /\ cycle' = 1
    /\ UNCHANGED <<chain_gas_map, pool, f, yielded, graphVars>>
    /\ ScanFrame

\* active_chains: the keys of web3_connections, in the order initialize()
\* inserted them (the order of core.config.CHAINS).
active_chains == SelectSeq(CONFIG_CHAINS, LAMBDA c : c \in web3_connections)

\* Futures of earlier iterations that are done go when the name that held
\* them (gas_futures, scan_futures) is bound to the new batch, but for the
\* one the loop variable f of line 349 still refers to.
Rebind(kind) ==
    {t \in pool :
         ~(t.kind = kind /\ t.cycle < cycle /\ t.state = "done" /\ t \notin f)}

\* 1. GAS CHECK, the dict comprehension of submissions: each step is one
\* executor.submit(self._get_gas_price, cid), in the order of
\* active_chains, while the pool already works on the tasks submitted; when
\* no chain is left, gas_futures is bound and the join begins.
GasCheck ==
    LET submitted == Cardinality(Futures(cycle, "gas")) IN
    /\ scan_pc \in {"top", "gas_submit"}
    /\ cycle <= MaxCycles
    /\ IF submitted < Len(active_chains)
       THEN /\ pool' = pool \cup {Task(cycle, "gas", active_chains[submitted + 1])}
            /\ scan_pc' = "gas_submit"
       ELSE /\ pool' = Rebind("gas")
            /\ scan_pc' = "gas_join"
    /\ UNCHANGED <<cycle, chain_gas_map, f, yielded, graphVars>>
    /\ ScanFrame

\* The join on the gas futures, 2. FORECAST GUARD (should_wait() is the
\* forecaster's answer, either value) and 3. FIND PATHS.
GasJoin ==
    LET fs == Futures(cycle, "gas")
        gas_map == [c \in {fut.arg : fut \in fs} |->
                       (CHOOSE fut \in fs : fut.arg = c).ret]
        poly_gas == IF 137 \in DOMAIN gas_map THEN gas_map[137] ELSE 0
        candidates == find_opportunities(graph)
    IN
    /\ scan_pc = "gas_join"
    /\ as_completed(fs)
    /\ IF GasJoinRaises(fs)
       THEN /\ scan_pc' = "crashed"
            /\ UNCHANGED <<cycle, chain_gas_map, graphVars>>
       ELSE /\ chain_gas_map' = gas_map
            /\ \E should_wait \in BOOLEAN :
                 IF poly_gas > 0 /\ should_wait
                 THEN /\ scan_pc' = "top"
                      /\ cycle' = cycle + 1
                      /\ UNCHANGED graphVars
                 ELSE /\ opportunities' = candidates
                      /\ brain_pc' = "scanned"
                      /\ UNCHANGED <<inventory, node_indices, graph>>
                      /\ IF candidates = <<>>
                         THEN /\ scan_pc' = "top"
                              /\ cycle' = cycle + 1
                         ELSE /\ scan_pc' = "eval_submit"
                              /\ UNCHANGED cycle
    /\ UNCHANGED <<pool, f, yielded>>
    /\ ScanFrame

\* 4. PARALLEL EVALUATION, the list comprehension of submissions: each step
\* is one executor.submit(self._evaluate_and_signal, opp, chain_gas_map), in
\* the order of the candidates; after the last, scan_futures is bound and
\* the join begins.
EvalSubmit ==
    LET submitted == Cardinality(Futures(cycle, "eval")) IN
    /\ scan_pc = "eval_submit"
    /\ IF submitted < Len(opportunities)
       THEN /\ pool' = pool \cup {Task(cycle, "eval", submitted + 1)}
            /\ UNCHANGED scan_pc
       ELSE /\ pool' = Rebind("eval")
            /\ scan_pc' = "eval_join"
    /\ UNCHANGED <<cycle, chain_gas_map, f, yielded, graphVars>>
    /\ ScanFrame

\* The loop over as_completed(scan_futures): each step is one iteration,
\* which binds f to a future that is done and not yet yielded (whichever
\* of them the generator hands over) and so lets go of the future f held
\* from an earlier iteration of 'while True'; with nothing left to yield
\* the loop ends, then time.sleep(1) and the next iteration.
EvalJoin ==
    LET fs == Futures(cycle, "eval") IN
    /\ scan_pc = "eval_join"
    /\ IF Remaining(fs) # {}
       THEN \E fut \in Remaining(fs) :
              /\ fut.state = "done"
              /\ f' = {fut}
              /\ yielded' = yielded \cup {fut}
              /\ pool' = pool \ {old \in f : old.cycle < cycle}
              /\ IF EvalJoinRaises({fut})
                 THEN scan_pc' = "crashed"
                 ELSE UNCHANGED scan_pc
              /\ UNCHANGED cycle
       ELSE /\ scan_pc' = "top"
            /\ cycle' = cycle + 1
            /\ yielded' = {}
            /\ UNCHANGED <<f, pool>>
    /\ UNCHANGED <<chain_gas_map, graphVars>>
    /\ ScanFrame

\* A worker thread of the pool takes a queued task.
PoolStart ==
    /\ Cardinality(Running) < max_workers
    /\ \E t \in pool :
         /\ t.state = "pending"
         /\ pool' = (pool \ {t}) \cup {[t EXCEPT !.state = "running"]}
    /\ UNCHANGED <<scan_pc, cycle, chain_gas_map, f, yielded, graphVars>>
    /\ ScanFrame

\* A worker thread returns from _get_gas_price.
PoolFinishGas ==
    /\ \E t \in Running, price \in GasPrices :
         /\ t.kind = "gas"
         /\ pool' = (pool \ {t}) \cup {get_gas_price(t, price)}
    /\ UNCHANGED <<scan_pc, cycle, chain_gas_map, f, yielded, graphVars>>
    /\ ScanFrame

\* A worker thread leaves _evaluate_and_signal.
PoolFinishEval ==
    /\ \E t \in Running :
         /\ t.kind = "eval"
         /\ pool' = (pool \ {t}) \cup {evaluate_and_signal(t)}
    /\ UNCHANGED <<scan_pc, cycle, chain_gas_map, f, yielded, graphVars>>
    /\ ScanFrame

\* The control thread's steps, and those of the pool's threads.
ControlStep == ScanStart \/ GasCheck \/ GasJoin \/ EvalSubmit \/ EvalJoin
WorkerStep == PoolStart \/ PoolFinishGas \/ PoolFinishEval

InitScan ==
    /\ CHAIN_STATES = InitialChainStates
    /\ \E st \in ScanStarts :
           /\ env_rpc = st.env
           /\ inventory = st.inventory
    /\ env_executor = [c \in MetadataChains |-> None]
    /\ validated_rpcs = EmptyDict
    /\ health_status = EmptyDict
    /\ registry_ret = NoCall
    /\ InitExecutorsIdle
    /\ InitBrainIdle
    /\ InitWorkersIdle
    /\ InitManagerIdle
    /\ InitStartupIdle
    /\ InitScanIdle
    /\ brain_pc = "constructed"
    /\ node_indices = EmptyDict
    /\ graph = EmptyGraph
    /\ opportunities = <<>>

NextScan ==
    \/ BuildStep
    \/ ScanStart
    \/ GasCheck
    \/ GasJoin
    \/ EvalSubmit
    \/ EvalJoin
    \/ PoolStart
    \/ PoolFinishGas
    \/ PoolFinishEval

\* The control thread and the pool's threads are operating-system threads:
\* each keeps running while it has something to do.
SpecScan ==
    InitScan /\ [][NextScan]_vars /\ WF_vars(ControlStep) /\ WF_vars(WorkerStep)

(***************************************************************************)
(* The factory, and trades on the executor it returned                     *)
(***************************************************************************)
MaxFactoryTrades == 1

InitFactory ==
    /\ InitRegistryIdle
    /\ InitExecutors
    /\ InitBrainIdle /\ InitWorkersIdle /\ InitManagerIdle /\ InitGraphIdle /\ InitScanIdle
    /\ \E mode \in ModeStrings \cup {"None"} :
           environ = [EXECUTION_MODE |-> mode, MAX_BASE_FEE_GWEI |-> "None",
                      MIN_PROFIT_USD |-> "None", MAX_SLIPPAGE_BPS |-> "None"]
    /\ execution_mode = Upper(Getenv("EXECUTION_MODE", "PAPER"))
    /\ validation_results = NoValidationResults
    /\ startup_ret = NoStartupCall
    /\ validator_calls = 0

CreateStep ==
    /\ startup_ret.op = "none"
    /\ \E mode \in ModeStrings \cup {"None"} : Create(mode)
    /\ UNCHANGED <<registryVars, execVars, brainVars, workerVars, managerVars,
                   graphVars, scanVars>>

TradeStep ==
    /\ startup_ret.op = "create"
    /\ live_total_trades + paper_total_trades < MaxFactoryTrades
    /\ \E sig \in Signals, redis \in RedisOutcomes :
           ExecutorExecuteTrade(sig, redis)
    /\ UNCHANGED <<registryVars, brainVars, workerVars, managerVars,
                   graphVars, startupVars, scanVars>>

NextFactory == CreateStep \/ TradeStep

\* One executor is created, then trades go to it.
SpecFactory == InitFactory /\ [][NextFactory]_vars

(***************************************************************************)
(* The registry's specification                                            *)
(***************************************************************************)
InitRegistry ==
    /\ CHAIN_STATES = InitialChainStates
    /\ env_rpc \in RegistryEnvs
    /\ env_executor \in ExecutorEnvs
    /\ validated_rpcs = EmptyDict
    /\ health_status = EmptyDict
    /\ registry_ret = NoCall

QueryStep ==
    /\ \E c \in Chains :
           \/ CallIsExecutionEnabled(c)
           \/ CallGetExecutionState(c)
           \/ CallGetRpcUrl(c)
           \/ CallGetExecutorAddress(c)
    /\ UNCHANGED <<execVars, brainVars, workerVars, managerVars, graphVars, startupVars, scanVars>>

ValidateStep ==
    /\ \E c \in Chains, probe \in Probes : ValidateRpcHealth(c, probe)
    /\ UNCHANGED <<execVars, brainVars, workerVars, managerVars, graphVars, startupVars, scanVars>>

ValidateAllStep ==
    /\ \E probes \in [MetadataChains -> SweepProbes] :
           ValidateAllConfiguredChains(probes)
    /\ UNCHANGED <<execVars, brainVars, workerVars, managerVars, graphVars, startupVars, scanVars>>

NextRegistry == QueryStep \/ ValidateStep \/ ValidateAllStep

InitSpecRegistry == InitRegistry /\ InitExecutorsIdle /\ InitBrainIdle /\ InitWorkersIdle /\ InitManagerIdle /\ InitGraphIdle /\ InitStartupIdle /\ InitScanIdle

SpecRegistry == InitSpecRegistry /\ [][NextRegistry]_vars

(***************************************************************************)
(* get_rpc_url over arbitrary configured values                            *)
(***************************************************************************)
MaxUrlTokens == 2

RECURSIVE UrlsOfLen(_)
UrlsOfLen(n) ==
    IF n = 0 THEN {<<>>}
    ELSE {Append(u, t) : u \in UrlsOfLen(n - 1), t \in UrlTokens}

\* What os.getenv can yield for RPC_POLYGON: unset, or any string, the
\* empty one included.
ConfiguredValues ==
    {None} \cup {Str(u) : u \in UNION {UrlsOfLen(n) : n \in 0..MaxUrlTokens}}

InitRpcUrl ==
    /\ CHAIN_STATES = InitialChainStates
    /\ \E u \in ConfiguredValues :
           env_rpc = [c \in MetadataChains |-> IF c = 137 THEN u ELSE GoodUrl]
    /\ env_executor = [c \in MetadataChains |-> None]
    /\ validated_rpcs = EmptyDict
    /\ health_status = EmptyDict
    /\ registry_ret = NoCall

ResolveStep ==
    /\ \E c \in Chains : CallGetRpcUrl(c)
    /\ UNCHANGED <<execVars, brainVars, workerVars, managerVars, graphVars, startupVars, scanVars>>

ProbeStep ==
    /\ \E c \in {137, 56}, probe \in Probes : ValidateRpcHealth(c, probe)
    /\ UNCHANGED <<execVars, brainVars, workerVars, managerVars, graphVars, startupVars, scanVars>>

NextRpcUrl == ResolveStep \/ ProbeStep

InitSpecRpcUrl == InitRpcUrl /\ InitExecutorsIdle /\ InitBrainIdle /\ InitWorkersIdle /\ InitManagerIdle /\ InitGraphIdle /\ InitStartupIdle /\ InitScanIdle

SpecRpcUrl == InitSpecRpcUrl /\ [][NextRpcUrl]_vars

(***************************************************************************)
(* The specifications of the pure functions                                *)
(***************************************************************************)
InitLoan ==
    /\ \E engine \in Engines, balance \in Liquidities, target \in Targets,
          decimals \in DecimalsOf :
           loan_call = LoanCall(engine, balance, target, decimals, FALSE, Zero)
    /\ profit_call = NoProfitCall

LoanStep ==
    /\ OptimizeLoanSize
    /\ UNCHANGED <<registryVars, execVars, profit_call, workerVars, managerVars, graphVars, startupVars, scanVars>>

InitSpecLoan == InitRegistryIdle /\ InitExecutorsIdle /\ InitLoan /\ InitWorkersIdle /\ InitManagerIdle /\ InitGraphIdle /\ InitStartupIdle /\ InitScanIdle

SpecLoan == InitSpecLoan /\ [][LoanStep]_vars

InitProfit ==
    /\ loan_call = NoLoanCall
    /\ \E flash_fee \in FlashFees, amount \in LoanAmountsUsd,
          amount_out \in OutputAmountsUsd, bridge_fee_usd \in BridgeFeesUsd,
          gas_cost_usd \in GasCostsUsd :
           profit_call = ProfitCall(flash_fee, amount, amount_out,
                                    bridge_fee_usd, gas_cost_usd, FALSE,
                                    NoProfitResult)

ProfitStep ==
    /\ CalculateEnhancedProfit
    /\ UNCHANGED <<registryVars, execVars, loan_call, workerVars, managerVars, graphVars, startupVars, scanVars>>

InitSpecProfit == InitRegistryIdle /\ InitExecutorsIdle /\ InitProfit /\ InitWorkersIdle /\ InitManagerIdle /\ InitGraphIdle /\ InitStartupIdle /\ InitScanIdle

SpecProfit == InitSpecProfit /\ [][ProfitStep]_vars

(***************************************************************************)
(* Claims about the executors                                              *)
(***************************************************************************)
\* C1: no trade is forwarded for real execution on a chain that is not
\* ENABLED: every trade id in the in-flight set, and every trade id
\* published to the execution layer, is of a chain for which
\* is_execution_enabled holds.
C1_OnlyEnabledChainsForwarded ==
    \A id \in pending_txs \cup published : is_execution_enabled(id[2])

\* C8: every Paper execute_trade on a well-formed signal returns SIMULATED
\* with is_paper true, whether the simulated trade wins or loses, and leaves
\* the in-flight set and the executor channel as they were.
C8_PaperAlwaysSimulated ==
    [][ \A sig \in Signals :
          ( /\ paper_total_trades' = paper_total_trades + 1
            /\ PaperExecuteTrade(sig)
            /\ {"chainId", "token", "amount"} \subseteq sig.keys )
          => /\ last_result'.op = "paper"
             /\ last_result'.status = "SIMULATED"
             /\ last_result'.is_paper
             /\ pending_txs' = pending_txs
             /\ published' = published ]_vars

\* A loss-making simulation returned SIMULATED while a Live trade is in flight.
C8_Witness ==
    /\ last_result.op = "paper"
    /\ last_result.status = "SIMULATED"
    /\ last_result.net_profit < 0
    /\ pending_txs # {}

PreflightReasons == {"Profit below minimum", "Slippage exceeds max",
                     "Max concurrent txs reached", "Missing required fields",
                     "PRIVATE_KEY not configured in .env",
                     "EXECUTOR_ADDRESS not configured"}

\* C9: when a pre-execution check fails in execute_trade, the call returns
\* FAILED with the reason of the failing check, and its trade id is neither
\* in the in-flight set nor published.
C9_FailedPreflightSubmitsNothing ==
    (last_result.op = "live" /\ last_result.is_valid = "False")
    => LET e == last_result.error IN
       /\ last_result.status = "FAILED"
       /\ e.msg \in PreflightReasons
       /\ e.msg = "Profit below minimum" => (e.a < e.b /\ e.b = 500)
       /\ e.msg = "Slippage exceeds max" => (e.a > e.b /\ e.b = 50)
       /\ e.msg = "Max concurrent txs reached"
              => (redis_enabled /\ Cardinality(pending_txs) >= max_concurrent_txs)
       /\ e.msg = "Missing required fields" => e.missing # <<>>
       /\ e.msg = "PRIVATE_KEY not configured in .env" => ~EnvSet(PRIVATE_KEY)
       /\ e.msg = "EXECUTOR_ADDRESS not configured" => ~EnvSet(EXECUTOR_ADDRESS)
       /\ last_result.trade_id \notin pending_txs
       /\ last_result.trade_id \notin published

\* The $4.99 trade rejected with its shortfall while another trade is in flight.
C9_Witness ==
    /\ last_result.op = "live"
    /\ last_result.status = "FAILED"
    /\ last_result.error = Reason("Profit below minimum", 499, 500, <<>>)
    /\ pending_txs # {}
    /\ last_result.trade_id \notin pending_txs

\* C10: with PRIVATE_KEY and EXECUTOR_ADDRESS configured, pre_execution_checks
\* accepts a signal iff its profit (0 when absent) is at least the minimum,
\* its slippage at most the maximum, every required field is present, and
\* the in-flight count is under the ceiling or could not be read.
C10_PreflightAcceptance ==
    \A sig \in Signals, redis \in RedisOutcomes :
        (EnvSet(PRIVATE_KEY) /\ EnvSet(EXECUTOR_ADDRESS))
        => ( pre_execution_checks(sig, redis).ok
             <=> /\ (IF "expected_profit" \in sig.keys
                     THEN sig.expected_profit ELSE 0) >= 500
                 /\ (IF "estimated_slippage_bps" \in sig.keys
                     THEN sig.estimated_slippage_bps ELSE 0) <= 50
                 /\ \/ ~redis_enabled
                    \/ ~redis.scard
                    \/ Cardinality(pending_txs) < max_concurrent_txs
                 /\ RequiredKeys \subseteq sig.keys )

\* A signal accepted with the in-flight set at the ceiling: SCARD raised.
C10_Witness ==
    /\ last_result.op = "pre_execution_checks"
    /\ last_result.is_valid = "True"
    /\ redis_enabled
    /\ Cardinality(pending_txs) >= max_concurrent_txs

(***************************************************************************)
(* Claims about the registry                                               *)
(***************************************************************************)
\* The whitelist of the claim: the chains CHAIN_STATES marks ENABLED.
EnabledWhitelist == {137}
StateAtStart(c) ==
    IF c = 137 THEN "ENABLED"
    ELSE IF c \in {1, 42161} THEN "CONFIGURED" ELSE "DISABLED"

\* C2: for every chain outside the ENABLED whitelist is_execution_enabled
\* is false in every reachable state, whatever validate_rpc_health has
\* recorded for the chain.
C2_NotWhitelistedNeverEnabled ==
    /\ \A c \in Chains \ EnabledWhitelist : ~is_execution_enabled(c)
    /\ (registry_ret.op = "is_execution_enabled"
        /\ registry_ret.chain \notin EnabledWhitelist) => registry_ret.ret = FALSE

\* is_execution_enabled(1) answered false with chain 1 recorded healthy.
C2_Witness ==
    /\ 1 \in DOMAIN health_status
    /\ health_status[1] = TRUE
    /\ registry_ret.op = "is_execution_enabled"
    /\ registry_ret.chain = 1
    /\ registry_ret.ret = FALSE

\* C3: execution permission is never escalated: after any sequence of
\* registry calls every chain's execution state is the one of process
\* start, and a registry call changes nothing but validated_rpcs and
\* health_status (and what it returns).
C3_NoEscalation ==
    /\ [](\A c \in Chains : get_execution_state(c) = StateAtStart(c))
    /\ [][UNCHANGED <<CHAIN_STATES, env_rpc, env_executor, execVars,
                       brainVars, workerVars, managerVars, graphVars, startupVars, scanVars>>]_vars

\* A sweep has recorded chain 1 healthy and cached its URL.
C3_Witness ==
    /\ registry_ret.op = "validate_all_configured_chains"
    /\ 1 \in DOMAIN validated_rpcs
    /\ 1 \in DOMAIN health_status /\ health_status[1] = TRUE
    /\ get_execution_state(1) = "CONFIGURED"

\* C4: get_rpc_url returns None whenever the configured URL contains
\* 'localhost' or '127.0.0.1' or does not start with http:// or https://,
\* and a return other than None is the configured URL itself.
C4_RpcUrlRejected ==
    (registry_ret.op = "get_rpc_url" /\ registry_ret.chain \in MetadataChains) =>
        LET configured == env_rpc[registry_ret.chain] IN
        /\ ( /\ configured # None
             /\ \/ Contains(configured[2], "localhost")
                \/ Contains(configured[2], "127.0.0.1")
                \/ ~ ( \/ StartsWith(configured[2], "http://")
                       \/ StartsWith(configured[2], "https://") ) )
           => registry_ret.ret = None
        /\ registry_ret.ret # None => registry_ret.ret = configured

\* The part of C4 the code keeps: a value it hands out that is usable as a
\* URL (truthy) is the configured one, has a scheme and names no loopback.
C4_ReturnedUrlIsSafe ==
    (registry_ret.op = "get_rpc_url" /\ Truthy(registry_ret.ret)) =>
        /\ registry_ret.chain \in MetadataChains
        /\ registry_ret.ret = env_rpc[registry_ret.chain]
        /\ ~ContainsLower(registry_ret.ret[2], "localhost")
        /\ ~Contains(registry_ret.ret[2], "127.0.0.1")
        /\ \/ StartsWith(registry_ret.ret[2], "http://")
           \/ StartsWith(registry_ret.ret[2], "https://")

(***************************************************************************)
(* Claims about loan sizing and the profit equation                        *)
(***************************************************************************)
\* x <= floor(L * 0.20), in exact arithmetic: 5 * x <= L.
WithinFifth(x, L) == BigLessEq(BigMul(2, FromInt(2, 5), x), L)

\* C5: for every pool liquidity L, target T and decimals d the amount
\* optimize_loan_size returns is at most floor(L * 0.20) and at most T.
C5_LoanWithinCap ==
    loan_call.done =>
        /\ WithinFifth(loan_call.ret, loan_call.balance)
        /\ BigLessEq(loan_call.ret, loan_call.target)

\* The half of C5 the code keeps: the request is never raised.
C5_NeverAboveRequest ==
    loan_call.done => BigLessEq(loan_call.ret, loan_call.target)

\* C6: optimize_loan_size returns 0 exactly when the liquidity query
\* raises, the liquidity is 0, or min(T, floor(L * 0.20)) is below
\* 500 * 10^decimals; otherwise it returns min(T, floor(L * 0.20)).
\* L = 1,000,000, T = 500,000, decimals = 6 gives 0.
C6_AbortCases ==
    loan_call.done =>
        LET L == loan_call.balance
            T == loan_call.target
            ret == loan_call.ret
            floor == BigMul(2, FromInt(2, 500), TenTo(2, loan_call.decimals))
            abort == \/ loan_call.engine # "balance"
                     \/ L = Zero
                     \/ BigLess(T, floor)
                     \/ ~WithinFifth(floor, L)
        IN  /\ (ret = Zero) <=> abort
            /\ ~abort =>
                   IF WithinFifth(T, L) THEN ret = T
                   ELSE /\ WithinFifth(ret, L)
                        /\ ~WithinFifth(BigAdd(2, ret, <<1>>), L)
            /\ ( /\ loan_call.engine = "balance"
                 /\ L = FromInt(2, 1000000)
                 /\ T = FromInt(2, 500000)
                 /\ loan_call.decimals = 6 ) => ret = Zero

\* The example of C6: 200,000 is below the floor of 500,000,000.
C6_ExampleAborts ==
    /\ loan_call.done
    /\ loan_call.engine = "balance"
    /\ loan_call.balance = FromInt(2, 1000000)
    /\ loan_call.target = FromInt(2, 500000)
    /\ loan_call.decimals = 6
    /\ loan_call.ret = Zero

\* C7: calculate_enhanced_profit returns exactly
\* total_fees = bridge_fee_usd + gas_cost_usd + amount * flash_fee,
\* gross_spread = amount_out - amount, net_profit = gross_spread -
\* total_fees, and is_profitable iff net_profit > 0, for all non-negative
\* inputs.
C7_ProfitEquation ==
    profit_call.done =>
        LET fees == DecAddExact(
                        DecAddExact(profit_call.bridge_fee_usd,
                                    profit_call.gas_cost_usd),
                        DecMulExact(profit_call.amount, profit_call.flash_fee))
            spread == DecAddExact(profit_call.amount_out,
                                  DecNeg(profit_call.amount))
            net == DecAddExact(spread, DecNeg(fees))
        IN  /\ DecEq(profit_call.ret.total_fees, fees)
            /\ DecEq(profit_call.ret.gross_spread, spread)
            /\ DecEq(profit_call.ret.net_profit, net)
            /\ profit_call.ret.is_profitable <=> DecGtZero(net)

\* At most prec significant digits: such a value is left as it is by the
\* context's rounding.
Fits(x) == Len(x.coef) <= prec

\* C7 within the precision of the Decimal context: whenever the flash
\* fee, the fee sums, the spread and the net profit have at most 28
\* significant digits, the three amounts returned are exactly those of the
\* equation; and is_profitable is always "the returned net_profit > 0",
\* so that a net profit of zero is not profitable.
C7_ProfitEquationWithinPrecision ==
    profit_call.done =>
        LET flash == DecMulExact(profit_call.amount, profit_call.flash_fee)
            flat == DecAddExact(profit_call.bridge_fee_usd,
                                profit_call.gas_cost_usd)
            fees == DecAddExact(flat, flash)
            spread == DecAddExact(profit_call.amount_out,
                                  DecNeg(profit_call.amount))
            net == DecAddExact(spread, DecNeg(fees))
        IN  /\ (Fits(flash) /\ Fits(flat) /\ Fits(fees) /\ Fits(spread)
                /\ Fits(net)) =>
                   /\ DecEq(profit_call.ret.total_fees, fees)
                   /\ DecEq(profit_call.ret.gross_spread, spread)
                   /\ DecEq(profit_call.ret.net_profit, net)
                   /\ profit_call.ret.is_profitable <=> DecGtZero(net)
            /\ profit_call.ret.is_profitable
                   <=> DecGtZero(profit_call.ret.net_profit)

\* A call whose net profit is exactly zero and is reported unprofitable.
C7_ZeroNetNotProfitable ==
    /\ profit_call.done
    /\ DecIsZero(profit_call.ret.net_profit)
    /\ DecGtZero(profit_call.amount_out)
    /\ ~profit_call.ret.is_profitable

(***************************************************************************)
(* Claims about the Live executor's configuration and its in-flight set    *)
(***************************************************************************)
\* The placeholder of .env.example for an executor contract address.
ExecutorPlaceholder == Str(<<"0xYOUR_DEPLOYED_CONTRACT_ADDRESS_HERE">>)
\* The executor contract address the registry holds for a chain is set and
\* is not the placeholder.
ChainExecutorSet(chain_id) ==
    LET address == get_executor_address(chain_id) IN
    Truthy(address) /\ address # ExecutorPlaceholder

\* C11: pre_execution_checks fails closed on configuration: whenever the
\* pre-flight of execute_trade accepts a signal, the signing credential is
\* set and is not the placeholder, and the executor contract address
\* configured for the signal's own chain is set and is not a placeholder.
C11_FailsClosedOnConfiguration ==
    (last_result.op = "live" /\ last_result.is_valid = "True")
    => /\ EnvSet(PRIVATE_KEY)
       /\ ChainExecutorSet(last_result.trade_id[2])

\* The part of C11 the code keeps: an accepted signal means PRIVATE_KEY and
\* the one global EXECUTOR_ADDRESS are set and are not placeholders.
C11_GlobalSettingsFailClosed ==
    (last_result.op \in {"live", "pre_execution_checks"}
     /\ last_result.is_valid = "True")
    => (EnvSet(PRIVATE_KEY) /\ EnvSet(EXECUTOR_ADDRESS))

\* C12: with the in-flight store available, however the execute_trade calls
\* of several workers interleave, the in-flight set pending_txs never holds
\* more than max_concurrent_txs trade ids.
C12_InFlightWithinCeiling ==
    redis_enabled => Cardinality(pending_txs) <= max_concurrent_txs

\* C13: when Redis is unavailable (never connected, or SADD / PUBLISH
\* raised, so that the signal was not published), execute_trade on a signal
\* that passed pre-flight returns FAILED with an error naming that cause; it
\* returns neither SIMULATED nor SUBMITTED and the Paper simulator has
\* recorded nothing.
C13_RedisUnavailableFails ==
    (last_result.op = "live" /\ last_result.is_valid = "True")
    => /\ ~last_result.is_paper
       /\ paper_total_trades = 0
       /\ paper_trade_history = 0
       /\ IF redis_enabled /\ last_result.trade_id \in published
          THEN last_result.status = "SUBMITTED"
          ELSE /\ last_result.status = "FAILED"
               /\ last_result.error.msg =
                      (IF ~redis_enabled THEN "Redis not available"
                       ELSE "Redis publish failed")

\* A signal that passed pre-flight failed for want of Redis.
C13_Witness ==
    /\ last_result.op = "live"
    /\ last_result.is_valid = "True"
    /\ last_result.status = "FAILED"
    /\ last_result.error.msg = "Redis not available"
    /\ ~redis_enabled

\* C14: the in-flight marker's lifecycle. A call of execute_trade that
\* returns SUBMITTED for trade id t leaves t in pending_txs and published; a
\* submitted t leaves pending_txs only in a call record_execution_result(t, r);
\* and after such a call, with Redis answering, t is not in pending_txs.
C14_MarkerLifecycle ==
    [][ /\ ( /\ last_result'.op = "live"
             /\ last_result'.status = "SUBMITTED"
             /\ live_total_trades' = live_total_trades + 1 )
           => /\ last_result'.trade_id \in pending_txs'
              /\ last_result'.trade_id \in published'
        /\ \A t \in pending_txs \cap published :
               t \notin pending_txs'
               => /\ last_result'.op = "record_execution_result"
                  /\ last_result'.trade_id = t
        /\ ( /\ last_result'.op = "record_execution_result"
             /\ redis_enabled
             /\ \E r \in ExecutionResults :
                    RecordExecutionResult(last_result'.trade_id, r, TRUE) )
           => last_result'.trade_id \notin pending_txs' ]_vars

\* The result of a submitted trade was recorded and its marker is gone, while
\* another submitted trade is still in flight.
C14_Witness ==
    /\ last_result.op = "record_execution_result"
    /\ last_result.trade_id \in published
    /\ last_result.trade_id \notin pending_txs
    /\ pending_txs \cap published # {}

(***************************************************************************)
(* Claims about the Hybrid manager                                         *)
(***************************************************************************)
\* C15: HybridExecutionManager.execute_trade hands a signal to the Live
\* executor iff its confidence_score (0.0 when absent) is at least the
\* threshold 0.85, equality included, and to the Paper simulator otherwise;
\* each call invokes exactly one of the two.
C15_HybridRouting ==
    [][ \A sig \in Signals, redis \in RedisOutcomes :
          HybridExecuteTrade(sig, redis)
          => LET confidence == IF "confidence_score" \in sig.keys
                               THEN sig.confidence_score ELSE 0
             IN IF confidence >= 85
                THEN /\ live_total_trades' = live_total_trades + 1
                     /\ last_result'.op = "live"
                     /\ UNCHANGED paperVars
                ELSE /\ paper_total_trades' = paper_total_trades + 1
                     /\ last_result'.op = "paper"
                     /\ UNCHANGED liveVars ]_vars

\* A signal at exactly 0.85 went to Live and was submitted: the signals of
\* chain 56 all carry a confidence_score of 0.85.
C15_Witness ==
    /\ last_result.op = "live"
    /\ last_result.trade_id[2] = 56
    /\ last_result.status = "SUBMITTED"
    /\ paper_total_trades = 0

(***************************************************************************)
(* Claims about the results reported back                                  *)
(***************************************************************************)
\* C16: record_execution_result is idempotent per delivery: a call with the
\* same trade id and the same result as the call before it leaves
\* successful_trades, total_profit and total_trades as the first call left
\* them (total_volume_usd is written nowhere after construction).
C16_DuplicateDeliveryIdempotent ==
    [][ ( /\ last_result.op = "record_execution_result"
          /\ last_result'.op = "record_execution_result"
          /\ Len(live_trade_history') = Len(live_trade_history) + 1
          /\ last_result'.trade_id = last_result.trade_id
          /\ live_trade_history'[Len(live_trade_history')]
                 = live_trade_history[Len(live_trade_history)] )
        => UNCHANGED <<live_successful_trades, live_total_profit,
                       live_total_trades>> ]_vars

\* The part of C16 the code keeps: a second delivery of a failure changes no
\* counter, and no delivery changes total_trades.
C16_CountersMoveOnlyOnSuccess ==
    [][ ( /\ last_result'.op = "record_execution_result"
          /\ Len(live_trade_history') = Len(live_trade_history) + 1 )
        => /\ live_total_trades' = live_total_trades
           /\ live_trade_history'[Len(live_trade_history')].status # "SUCCESS"
              => UNCHANGED <<live_successful_trades, live_total_profit>> ]_vars

\* C17: a terminal result is recorded only for a trade id that execute_trade
\* has returned SUBMITTED for (the ids in published): a call of
\* record_execution_result for any other id, never submitted or rejected at
\* pre-flight, changes no counter and no history.
C17_ResultOnlyAfterSubmitted ==
    [][ ( /\ last_result'.op = "record_execution_result"
          /\ last_result'.trade_id \notin published
          /\ <<last_result, live_trade_history>>'
                 # <<last_result, live_trade_history>> )
        => UNCHANGED <<live_successful_trades, live_total_profit,
                       live_total_trades, live_trade_history>> ]_vars

(***************************************************************************)
(* Claims about ExecutionManager.submit_trade                              *)
(***************************************************************************)
\* C18: submit_trade terminates and calls execute_signal at most
\* max_retries times per trade; it stops at the first attempt whose result
\* has success true and returns that result, and after max_retries
\* unsuccessful attempts it returns a result with success false.
C18_BoundedRetry ==
    \A k \in Callers :
        /\ [] LET o == submit_call[k].outcomes
                  succeeded == {i \in 1..Len(o) : o[i] = "success"}
              IN /\ Len(o) <= max_retries
                 /\ submit_call[k].pc = "loop" => succeeded = {}
                 /\ submit_call[k].pc = "returned"
                    => IF succeeded # {}
                       THEN /\ succeeded = {Len(o)}
                            /\ submit_call[k].ret.success
                       ELSE /\ Len(o) = max_retries
                            /\ ~submit_call[k].ret.success
        /\ (submit_call[k].pc = "loop") ~> (submit_call[k].pc = "returned")

\* Three attempts at the default max_retries = 3, all unsuccessful, and the
\* trade returned as failed.
C18_Witness ==
    /\ max_retries = 3
    /\ submit_call[1].pc = "returned"
    /\ Len(submit_call[1].outcomes) = 3
    /\ ~submit_call[1].ret.success
    /\ stats.retried = 2
    /\ stats.failed = 1

\* C19: a trade the executor rejects for good (a non-success result of the
\* server) is not retried: the attempt that comes back rejected is the
\* call's only one, submit_trade returns after it, and the retried counter
\* stays as it was.
C19_RejectedNotRetried ==
    [][ \A k \in Callers :
          ( /\ submit_call[k].pc = "loop"
            /\ Len(submit_call'[k].outcomes) = Len(submit_call[k].outcomes) + 1
            /\ submit_call'[k].outcomes[Len(submit_call'[k].outcomes)]
                  = "rejected" )
          => /\ submit_call'[k].pc = "returned"
             /\ Len(submit_call'[k].outcomes) = 1
             /\ stats'.retried = stats.retried ]_vars

\* The part of C19 the code keeps: the last attempt allowed is not followed
\* by another, whatever it came back with.
C19_LastAttemptNotRetried ==
    [][ \A k \in Callers :
          ( /\ submit_call[k].pc = "loop"
            /\ Len(submit_call'[k].outcomes) = max_retries )
          => /\ submit_call'[k].pc = "returned"
             /\ stats'.retried = stats.retried ]_vars

(***************************************************************************)
(* Claims about the opportunity graph                                      *)
(***************************************************************************)
ChainsCarrying(symbol) ==
    {c \in DOMAIN inventory : symbol \in SeqRange(inventory[c])}
Bridgeable(symbol) == \E i \in 1..Len(BRIDGE_ASSETS) : BRIDGE_ASSETS[i] = symbol
\* The bridge edges of the graph that run from (a, symbol) to (b, symbol).
EdgesBetween(symbol, a, b) ==
    {i \in 1..Len(graph.edges) :
        /\ graph.edges[i].type = "bridge"
        /\ graph.nodes[graph.edges[i].u + 1] = [chain |-> a, symbol |-> symbol]
        /\ graph.nodes[graph.edges[i].v + 1] = [chain |-> b, symbol |-> symbol]}

\* C20: in the built graph every bridgeable symbol carried by k chains has
\* exactly k*(k-1) directed bridge edges, one in each direction for every
\* pair of chains carrying it, and a symbol that is not bridgeable has none;
\* _find_opportunities returns exactly one opportunity per edge, with the
\* edge's chains and symbol, and src_chain different from dst_chain.
C20_BridgeEdgesAndOpportunities ==
    brain_pc # "constructed"
    => /\ \A symbol \in UNION {SeqRange(inventory[c]) : c \in DOMAIN inventory} :
              LET carrying == ChainsCarrying(symbol)
                  k == Cardinality(carrying)
                  all == UNION {EdgesBetween(symbol, a, b) :
                                    a \in DOMAIN inventory, b \in DOMAIN inventory}
              IN /\ Cardinality(all) = IF Bridgeable(symbol) THEN k * (k - 1) ELSE 0
                 /\ \A a \in DOMAIN inventory, b \in DOMAIN inventory :
                        Cardinality(EdgesBetween(symbol, a, b))
                            = IF /\ Bridgeable(symbol)
                                 /\ a # b
                                 /\ {a, b} \subseteq carrying
                              THEN 1 ELSE 0
       /\ brain_pc = "scanned"
          => /\ Len(opportunities) = Len(graph.edges)
             /\ \A i \in 1..Len(opportunities) :
                    LET opp == opportunities[i]
                        e == graph.edges[i]
                    IN /\ opp.src_chain # opp.dst_chain
                       /\ opp.src_chain = graph.nodes[e.u + 1].chain
                       /\ opp.dst_chain = graph.nodes[e.v + 1].chain
                       /\ opp.token = graph.nodes[e.u + 1].symbol

\* USDC on three chains, WETH on two and the native ETH, which is not
\* bridgeable, on two: 6 + 2 opportunities found.
C20_Witness ==
    /\ brain_pc = "scanned"
    /\ Cardinality(ChainsCarrying("USDC")) = 3
    /\ Cardinality(ChainsCarrying("WETH")) = 2
    /\ Cardinality(ChainsCarrying("ETH")) = 2
    /\ Len(opportunities) = 8
    /\ Cardinality({i \in 1..Len(opportunities) :
                       opportunities[i].token = "USDC"}) = 6


\* The graph of the registry as it is: 103 tokens on 15 chains, 578 bridge
\* edges (156 of them for USDC, which 13 chains carry), as many opportunities.
C20_RegistryWitness ==
    /\ brain_pc = "scanned"
    /\ inventory = fetch_all_chains(target_chains)
    /\ Len(graph.nodes) = 103
    /\ Len(opportunities) = 578
    /\ Cardinality(ChainsCarrying("USDC")) = 13
    /\ Cardinality({i \in 1..Len(opportunities) :
                       opportunities[i].token = "USDC"}) = 156

(***************************************************************************)
(* Claims about the failures execute_trade reports                         *)
(***************************************************************************)
\* C27: execute_trade reports a signal that lacks a required field
\* (chainId, token, amount, protocols, routers or path) as a structured
\* FAILED result and never raises for it, whichever field is missing; the
\* error is the reason of pre_execution_checks, which names the missing
\* fields once the profit, slippage and concurrency checks have passed.
C27_MissingFieldStructuredFailure ==
    [][ \A sig \in IncompleteSignals, redis \in RedisOutcomes :
            LiveExecuteTrade(sig, redis)
            => /\ last_result'.status = "FAILED"
               /\ last_result'.error = pre_execution_checks(sig, redis).reason
               /\ last_result'.error.msg = "Missing required fields"
                  => last_result'.error.missing # <<>> ]_vars

\* The part of C27 the code keeps: with chainId present, a signal lacking
\* any of the other five fields comes back FAILED with the reason of
\* pre_execution_checks.
C27_OtherFieldsStructuredFailure ==
    [][ \A sig \in IncompleteSignals, redis \in RedisOutcomes :
            ( /\ "chainId" \in sig.keys
              /\ LiveExecuteTrade(sig, redis) )
            => /\ last_result'.status = "FAILED"
               /\ last_result'.error = pre_execution_checks(sig, redis).reason ]_vars

\* C28: whenever execute_trade returns FAILED, for any cause, pending_txs is
\* the same after the call as before it.
C28_FailedLeavesNothingInFlight ==
    [][ ( /\ last_result'.op = "live"
          /\ last_result'.status = "FAILED"
          /\ live_total_trades' = live_total_trades + 1 )
        => pending_txs' = pending_txs ]_vars

\* The part of C28 the code keeps: a trade that failed before the SADD (at
\* pre-flight, or with Redis unavailable) leaves pending_txs as it was.
C28_RejectedLeavesNothingInFlight ==
    [][ ( /\ last_result'.op = "live"
          /\ last_result'.status = "FAILED"
          /\ live_total_trades' = live_total_trades + 1
          /\ last_result'.error.msg # "Redis publish failed" )
        => pending_txs' = pending_txs ]_vars

(***************************************************************************)
(* Claims about the counters                                               *)
(***************************************************************************)
\* C29: after any sequence of completed submit_trade calls, for every
\* max_retries >= 0, sent = succeeded + failed (each trade counted in
\* exactly one of the two), and retried <= (max_retries - 1) * sent when
\* max_retries >= 1.
C29_CountersConsistent ==
    (\A k \in Callers : submit_call[k].pc # "loop")
    => /\ stats.sent = stats.succeeded + stats.failed
       /\ max_retries >= 1 => stats.retried <= (max_retries - 1) * stats.sent

\* The part of C29 the code keeps: the same for max_retries >= 1.
C29_CountersConsistentWithAttempts ==
    ((\A k \in Callers : submit_call[k].pc # "loop") /\ max_retries >= 1)
    => /\ stats.sent = stats.succeeded + stats.failed
       /\ stats.retried <= (max_retries - 1) * stats.sent

\* C30: in every reachable state of a LiveMainnetExecutor successful_trades
\* <= total_trades, and successful_trades is at most the number of trades
\* execute_trade returned SUBMITTED for.
C30_SuccessesWithinTrades ==
    /\ live_successful_trades <= live_total_trades
    /\ live_successful_trades <= Cardinality(published)


(***************************************************************************)
(* Claims about the RPC health checks                                      *)
(***************************************************************************)
\* C26: validate_rpc_health(chain) returns a boolean for every probe
\* outcome (no URL, node unreachable, exception while connecting or while
\* fetching the block height); on return health_status[chain] is the
\* returned boolean, and validated_rpcs is written, at that chain only, only
\* when the return is true. validate_all_configured_chains returns an entry
\* for exactly the chains whose state is ENABLED or CONFIGURED.
C26_HealthCheckContained ==
    [][ /\ registry_ret'.op = "validate_rpc_health"
           => LET c == registry_ret'.chain IN
              /\ registry_ret'.ret \in BOOLEAN
              /\ c \in DOMAIN health_status'
              /\ health_status'[c] = registry_ret'.ret
              /\ \A d \in DOMAIN health_status' \ {c} :
                     d \in DOMAIN health_status
                     /\ health_status'[d] = health_status[d]
              /\ validated_rpcs' # validated_rpcs
                 => /\ registry_ret'.ret
                    /\ validated_rpcs' = DictSet(validated_rpcs, c, get_rpc_url(c))
        /\ registry_ret'.op = "validate_all_configured_chains"
           => /\ DOMAIN registry_ret'.ret
                    = {c \in Chains : get_execution_state(c)
                                          \in {"ENABLED", "CONFIGURED"}}
              /\ \A c \in DOMAIN registry_ret'.ret :
                     registry_ret'.ret[c] = health_status'[c]
      ]_vars

\* A chain with a usable URL whose node answers but fails on the block
\* height: the check returned false, recorded false, and cached no URL.
C26_Witness ==
    /\ registry_ret.op = "validate_rpc_health"
    /\ registry_ret.chain = 1
    /\ Truthy(get_rpc_url(1))
    /\ registry_ret.ret = FALSE
    /\ health_status[1] = FALSE
    /\ 1 \notin DOMAIN validated_rpcs
    /\ 137 \in DOMAIN validated_rpcs


(***************************************************************************)
(* Claims about startup                                                    *)
(***************************************************************************)
\* C21: validate_system returns false whenever the sweep of
\* validate_all_configured_chains reports chain 137 unhealthy or has no
\* entry for it, whatever the other checks return; an unhealthy chain other
\* than 137 does not enter the result: the return is the conjunction of the
\* Polygon entry with the mode, wallet, executor and safety checks.
C21_NotReadyWithoutEnabledChainRpc ==
    startup_ret.op = "validate_system"
    => LET results == validation_results.chain_rpcs
           polygon_healthy == 137 \in DOMAIN results /\ results[137]
       IN /\ ~polygon_healthy => startup_ret.ret = "False"
          /\ validation_results.overall = (startup_ret.ret = "True")
          /\ startup_ret.ret = "True"
             <=> /\ polygon_healthy
                 /\ validation_results.execution_mode = "True"
                 /\ validation_results.wallet = "True"
                 /\ validation_results.executor_contracts[137]
                 /\ validate_safety_params.ret

\* Every check but the RPC check passes (paper mode, default settings) and
\* Polygon's node fails: the system is reported not ready.
C21_Witness ==
    /\ startup_ret.op = "validate_system"
    /\ startup_ret.ret = "False"
    /\ execution_mode = "PAPER"
    /\ validation_results.safety_params # EmptyDict
    /\ Truthy(get_rpc_url(137))
    /\ validation_results.chain_rpcs[137] = FALSE
    /\ validation_results.chain_rpcs[1] = TRUE

\* Ready although a CONFIGURED chain is unhealthy.
C21_ReadyWithConfiguredChainDown ==
    /\ startup_ret.op = "validate_system"
    /\ startup_ret.ret = "True"
    /\ validation_results.chain_rpcs[137] = TRUE
    /\ validation_results.chain_rpcs[1] = FALSE
    /\ validation_results.chain_rpcs[42161] = FALSE

\* validate_system reports not ready on a failed Polygon node although the
\* call before it on the same validator, validate_chain_rpcs alone, found
\* Polygon healthy (its URL is still cached from that sweep).
C21_AfterLoneChecks ==
    /\ startup_ret.op = "validate_system"
    /\ startup_ret.ret = "False"
    /\ validator_calls = 2
    /\ 137 \in DOMAIN validated_rpcs
    /\ validation_results.chain_rpcs[137] = FALSE
    /\ validation_results.execution_mode = "True"
    /\ validation_results.wallet = "True"
    /\ validation_results.executor_contracts[137]
    /\ validate_safety_params.ret


\* C22: ExecutionModeFactory.create returns a PaperTradingSimulator for
\* 'paper', a LiveMainnetExecutor for 'live', a HybridExecutionManager for
\* 'hybrid'; for every other mode string, and with no mode given and
\* EXECUTION_MODE unset, a PaperTradingSimulator; the executor returned for
\* an unrecognised mode marks nothing in flight and publishes nothing.
C22_FactoryDispatch ==
    startup_ret.op = "create"
    => LET mode == startup_ret.mode
           unrecognised == \/ mode \notin {"None", "paper", "live", "hybrid"}
                           \/ mode = "None" /\ environ.EXECUTION_MODE = "None"
       IN /\ mode = "paper" => startup_ret.ret = "PaperTradingSimulator"
          /\ mode = "live" => startup_ret.ret = "LiveMainnetExecutor"
          /\ mode = "hybrid" => startup_ret.ret = "HybridExecutionManager"
          /\ unrecognised
             => /\ startup_ret.ret = "PaperTradingSimulator"
                /\ pending_txs = {}
                /\ published = {}
                /\ live_total_trades = 0
                /\ last_result.op \in {"none", "paper"}
                /\ last_result.status # "SUBMITTED"

\* create('LIVE') gave a PaperTradingSimulator, and a trade went to it.
C22_Witness ==
    /\ startup_ret.op = "create"
    /\ startup_ret.mode = "LIVE"
    /\ startup_ret.ret = "PaperTradingSimulator"
    /\ redis_enabled
    /\ paper_total_trades = 1
    /\ last_result.status = "SIMULATED"


\* C23: in the scan loop every submit_trade call of an edge evaluation
\* comes after an optimize_loan_size call of the same evaluation that
\* returned a non-zero amount, the amount submitted is that amount, and an
\* edge whose guard returned 0 is neither quoted nor submitted.
C23_GuardBeforeEverySubmission ==
    \A t \in pool :
        t.kind = "eval"
        => /\ t.guard = "zero" => (~t.quoted /\ ~t.submitted)
           /\ t.submitted => /\ t.guard = "nonzero"
                             /\ t.safe_amount # 0
                             /\ t.amount = t.safe_amount

\* No evaluation gets as far as the guard's answer, a quote or a
\* submission: each ends at line 196.
C23_NothingSubmitted ==
    \A t \in pool :
        t.kind = "eval" => (t.guard = "not_run" /\ ~t.quoted /\ ~t.submitted)

\* An evaluation has ended, at the first statement of the guard.
C23_EvaluationEnded ==
    \E t \in pool :
        t.kind = "eval" /\ t.state = "done" /\ t.exception = "NameError"

\* C24: cycle barrier. Every task that is queued or running belongs to the
\* iteration the control thread is in, so tasks of two iterations never run
\* at the same time, and the control thread is at the top of the loop (about
\* to fetch gas for the next iteration) only when no task is left unfinished.
C24_CycleBarrier ==
    /\ \A t \in pool : t.state # "done" => t.cycle = cycle
    /\ \A t1, t2 \in Running : t1.cycle = t2.cycle
    /\ scan_pc = "top" => \A t \in pool : t.state = "done"

\* The second iteration is under way with tasks running, after an iteration
\* that evaluated edges.
C24_Witness ==
    /\ cycle = 2
    /\ Running # {}
    /\ opportunities # <<>>

\* C25: per-edge isolation. The control thread never leaves scan_loop by an
\* exception, and an iteration in which an evaluation has raised goes on:
\* every evaluation of that iteration ends, one per candidate, and the
\* control thread reaches the top of the loop for the next iteration.
C25_PerEdgeIsolation ==
    /\ [](scan_pc # "crashed")
    /\ \A n \in 1..MaxCycles :
         (/\ cycle = n
          /\ \E t \in Futures(n, "eval") : t.exception # "None")
         ~> (/\ cycle = n + 1
             /\ scan_pc = "top"
             /\ Cardinality(Futures(n, "eval")) = Len(opportunities)
             /\ \A t \in Futures(n, "eval") : t.state = "done")

\* One evaluation has raised while another of the same iteration is still
\* to run.
C25_Witness ==
    \E t1, t2 \in Futures(cycle, "eval") :
        /\ t1.exception = "NameError"
        /\ t2.state = "pending"

\* The iteration after one whose evaluations all raised has started.
C25_NextCycleWitness ==
    /\ cycle = 2
    /\ scan_pc = "gas_join"
    /\ opportunities # <<>>
    /\ chain_gas_map # EmptyDict


\* An evaluation has already raised while the control thread is still
\* submitting the evaluations of the same iteration.
C25_RaisedDuringSubmission ==
    /\ scan_pc = "eval_submit"
    /\ Cardinality(Futures(cycle, "eval")) < Len(opportunities)
    /\ \E t \in Futures(cycle, "eval") : t.exception = "NameError"

\* The loop has been handed an evaluation that raised while another of the
\* same iteration is still running, and goes on.
C25_YieldedWhileRunning ==
    /\ scan_pc = "eval_join"
    /\ \E t \in yielded : t.exception = "NameError"
    /\ \E t \in Futures(cycle, "eval") : t.state = "running"

\* The second iteration has bound scan_futures to its own evaluations, and
\* of the first iteration's only the future f refers to is left.
C24_LastFutureKept ==
    /\ cycle = 2
    /\ scan_pc = "eval_join"
    /\ yielded = {}
    /\ f # {}
    /\ Futures(1, "eval") = f

====
